---------------------------- MODULE Spec2Model ----------------------------
(***************************************************************************)
(* Diplomacy order adjudication: the movement resolver of                  *)
(* diplomacy_game_engine/core/resolver.py over the standard map of         *)
(* core/map.py and the board state of core/game_state.py.                  *)
(*                                                                         *)
(* Python dictionaries iterate in insertion order, and the resolver's      *)
(* loops depend on it, so the unit table and the order table are modelled  *)
(* as sequences in insertion order.  Python's None is the string "None".   *)
(***************************************************************************)
EXTENDS Integers, Sequences, FiniteSets, TLC

None == "None"

Min(S) == CHOOSE x \in S : \A y \in S : x <= y

(***************************************************************************)
(* core/map.py: provinces, powers, coasts, adjacency.                      *)
(***************************************************************************)
Powers == {"England", "France", "Germany", "Italy", "Austria-Hungary", "Russia", "Turkey"}

\* Power in enum order (the order of "for power in Power").
PowerOrder == <<"England", "France", "Germany", "Italy", "Austria-Hungary", "Russia", "Turkey">>

CoastValues == {"nc", "sc", "ec", "wc"}

SeaProvinces ==
    {"NTH", "NWG", "BAR", "ENG", "IRI", "MAO", "NAO", "HEL", "SKA", "BAL", "BOT", "WES", "LYO",
     "TYS", "ION", "ADR", "AEG", "EAS", "BLA"}

LandProvinces ==
    {"Par", "Bur", "Mun", "Ruh", "Sil", "Vie", "Bud", "Boh", "Gal", "Tyr", "Mos", "War", "Ukr",
     "Ser"}

CoastalProvinces ==
    {"Lon", "Edi", "Lvp", "Wal", "Yor", "Cly", "Mar", "Bre", "Gas", "Pic", "Ber", "Kie", "Pru",
     "Rom", "Ven", "Nap", "Apu", "Pie", "Tus", "Tri", "Sev", "StP", "Lvn", "Fin", "Con", "Smy",
     "Ank", "Arm", "Syr", "Bel", "Hol", "Den", "Swe", "Nwy", "Spa", "Por", "Tun", "Bul", "Rum",
     "Gre", "Alb"}

Provinces == SeaProvinces \cup LandProvinces \cup CoastalProvinces

SupplyCenterProvinces ==
    {"Lon", "Edi", "Lvp", "Par", "Mar", "Bre", "Ber", "Mun", "Kie", "Rom", "Ven", "Nap", "Vie",
     "Bud", "Tri", "Mos", "Sev", "War", "StP", "Con", "Smy", "Ank", "Bel", "Hol", "Den", "Swe",
     "Nwy", "Spa", "Por", "Tun", "Ser", "Bul", "Rum", "Gre"}

HomeCenterOf(p) ==
    CASE p \in {"Lon", "Edi", "Lvp"} -> "England"
      [] p \in {"Par", "Mar", "Bre"} -> "France"
      [] p \in {"Ber", "Mun", "Kie"} -> "Germany"
      [] p \in {"Rom", "Ven", "Nap"} -> "Italy"
      [] p \in {"Vie", "Bud", "Tri"} -> "Austria-Hungary"
      [] p \in {"Mos", "Sev", "War", "StP"} -> "Russia"
      [] p \in {"Con", "Smy", "Ank"} -> "Turkey"
      [] OTHER -> None

ProvinceCoasts(p) ==
    CASE p = "StP" -> {"nc", "sc"}
      [] p = "Spa" -> {"nc", "sc"}
      [] p = "Bul" -> {"ec", "sc"}
      [] OTHER -> {}

\* Province.is_sea / is_land / is_coastal, for a province get_province found.
IsSea(p) == p \in SeaProvinces
IsLand(p) == p \in LandProvinces
IsCoastal(p) == p \in CoastalProvinces

\* Map.get_province(abbr) is None.
ProvinceMissing(p) == p \notin Provinces

\* The adjacency list of create_standard_map: (from, to, from_coast, to_coast).
AdjacencyTable == {
    <<"Lon", "Wal", "None", "None">>, <<"Lon", "Yor", "None", "None">>,
    <<"Lon", "NTH", "None", "None">>, <<"Lon", "ENG", "None", "None">>,
    <<"Edi", "Yor", "None", "None">>, <<"Edi", "Cly", "None", "None">>,
    <<"Edi", "NTH", "None", "None">>, <<"Edi", "NWG", "None", "None">>,
    <<"Lvp", "Wal", "None", "None">>, <<"Lvp", "Yor", "None", "None">>,
    <<"Lvp", "Cly", "None", "None">>, <<"Lvp", "IRI", "None", "None">>,
    <<"Lvp", "NAO", "None", "None">>, <<"Wal", "Yor", "None", "None">>,
    <<"Wal", "IRI", "None", "None">>, <<"Wal", "ENG", "None", "None">>,
    <<"Yor", "Wal", "None", "None">>, <<"Yor", "NTH", "None", "None">>,
    <<"Cly", "NAO", "None", "None">>, <<"Cly", "NWG", "None", "None">>,
    <<"Par", "Pic", "None", "None">>, <<"Par", "Bur", "None", "None">>,
    <<"Par", "Gas", "None", "None">>, <<"Par", "Bre", "None", "None">>,
    <<"Bre", "Pic", "None", "None">>, <<"Bre", "Gas", "None", "None">>,
    <<"Bre", "MAO", "None", "None">>, <<"Bre", "ENG", "None", "None">>,
    <<"Mar", "Bur", "None", "None">>, <<"Mar", "Gas", "None", "None">>,
    <<"Mar", "Pie", "None", "None">>, <<"Mar", "Spa", "None", "sc">>,
    <<"Mar", "LYO", "None", "None">>, <<"Pic", "Bel", "None", "None">>,
    <<"Pic", "Bur", "None", "None">>, <<"Pic", "ENG", "None", "None">>,
    <<"Bur", "Bel", "None", "None">>, <<"Bur", "Ruh", "None", "None">>,
    <<"Bur", "Mun", "None", "None">>, <<"Bur", "Gas", "None", "None">>,
    <<"Bur", "Mar", "None", "None">>, <<"Gas", "Spa", "None", "None">>,
    <<"Gas", "MAO", "None", "None">>, <<"Ber", "Kie", "None", "None">>,
    <<"Ber", "Pru", "None", "None">>, <<"Ber", "Sil", "None", "None">>,
    <<"Ber", "Mun", "None", "None">>, <<"Ber", "BAL", "None", "None">>,
    <<"Mun", "Kie", "None", "None">>, <<"Mun", "Ruh", "None", "None">>,
    <<"Mun", "Bur", "None", "None">>, <<"Mun", "Tyr", "None", "None">>,
    <<"Mun", "Boh", "None", "None">>, <<"Mun", "Sil", "None", "None">>,
    <<"Kie", "Ruh", "None", "None">>, <<"Kie", "Hol", "None", "None">>,
    <<"Kie", "Den", "None", "None">>, <<"Kie", "HEL", "None", "None">>,
    <<"Kie", "BAL", "None", "None">>, <<"Ruh", "Bel", "None", "None">>,
    <<"Ruh", "Hol", "None", "None">>, <<"Pru", "Sil", "None", "None">>,
    <<"Pru", "War", "None", "None">>, <<"Pru", "Lvn", "None", "None">>,
    <<"Pru", "BAL", "None", "None">>, <<"Sil", "Boh", "None", "None">>,
    <<"Sil", "Gal", "None", "None">>, <<"Sil", "War", "None", "None">>,
    <<"Rom", "Tus", "None", "None">>, <<"Rom", "Nap", "None", "None">>,
    <<"Rom", "Apu", "None", "None">>, <<"Rom", "Ven", "None", "None">>,
    <<"Rom", "TYS", "None", "None">>, <<"Ven", "Tus", "None", "None">>,
    <<"Ven", "Pie", "None", "None">>, <<"Ven", "Tyr", "None", "None">>,
    <<"Ven", "Tri", "None", "None">>, <<"Ven", "ADR", "None", "None">>,
    <<"Nap", "Apu", "None", "None">>, <<"Nap", "Rom", "None", "None">>,
    <<"Nap", "TYS", "None", "None">>, <<"Nap", "ION", "None", "None">>,
    <<"Apu", "ADR", "None", "None">>, <<"Apu", "ION", "None", "None">>,
    <<"Pie", "Tus", "None", "None">>, <<"Pie", "Tyr", "None", "None">>,
    <<"Pie", "Mar", "None", "None">>, <<"Pie", "LYO", "None", "None">>,
    <<"Tus", "LYO", "None", "None">>, <<"Tus", "TYS", "None", "None">>,
    <<"Vie", "Boh", "None", "None">>, <<"Vie", "Gal", "None", "None">>,
    <<"Vie", "Bud", "None", "None">>, <<"Vie", "Tyr", "None", "None">>,
    <<"Vie", "Tri", "None", "None">>, <<"Bud", "Gal", "None", "None">>,
    <<"Bud", "Rum", "None", "None">>, <<"Bud", "Ser", "None", "None">>,
    <<"Bud", "Tri", "None", "None">>, <<"Tri", "Tyr", "None", "None">>,
    <<"Tri", "Alb", "None", "None">>, <<"Tri", "Ser", "None", "None">>,
    <<"Tri", "ADR", "None", "None">>, <<"Boh", "Tyr", "None", "None">>,
    <<"Boh", "Gal", "None", "None">>, <<"Gal", "Ukr", "None", "None">>,
    <<"Gal", "Rum", "None", "None">>, <<"Gal", "War", "None", "None">>,
    <<"Tyr", "Pie", "None", "None">>, <<"Mos", "War", "None", "None">>,
    <<"Mos", "Ukr", "None", "None">>, <<"Mos", "Sev", "None", "None">>,
    <<"Mos", "Lvn", "None", "None">>, <<"Mos", "StP", "None", "None">>,
    <<"War", "Ukr", "None", "None">>, <<"War", "Lvn", "None", "None">>,
    <<"Sev", "Ukr", "None", "None">>, <<"Sev", "Rum", "None", "None">>,
    <<"Sev", "Arm", "None", "None">>, <<"Sev", "BLA", "None", "None">>,
    <<"StP", "Mos", "sc", "None">>, <<"StP", "Lvn", "sc", "None">>, <<"StP", "Fin", "sc", "None">>,
    <<"StP", "Fin", "nc", "None">>, <<"StP", "Nwy", "nc", "None">>, <<"StP", "BAR", "nc", "None">>,
    <<"StP", "BOT", "sc", "None">>, <<"Lvn", "War", "None", "None">>,
    <<"Lvn", "Fin", "None", "None">>, <<"Lvn", "BOT", "None", "None">>,
    <<"Lvn", "BAL", "None", "None">>, <<"Ukr", "Rum", "None", "None">>,
    <<"Fin", "Swe", "None", "None">>, <<"Fin", "Nwy", "None", "None">>,
    <<"Fin", "BOT", "None", "None">>, <<"Con", "Bul", "None", "sc">>,
    <<"Con", "Bul", "None", "ec">>, <<"Con", "Ank", "None", "None">>,
    <<"Con", "Smy", "None", "None">>, <<"Con", "BLA", "None", "None">>,
    <<"Con", "AEG", "None", "None">>, <<"Ank", "Arm", "None", "None">>,
    <<"Ank", "Smy", "None", "None">>, <<"Ank", "BLA", "None", "None">>,
    <<"Smy", "Arm", "None", "None">>, <<"Smy", "Syr", "None", "None">>,
    <<"Smy", "AEG", "None", "None">>, <<"Smy", "EAS", "None", "None">>,
    <<"Arm", "Sev", "None", "None">>, <<"Arm", "Syr", "None", "None">>,
    <<"Arm", "BLA", "None", "None">>, <<"Syr", "EAS", "None", "None">>,
    <<"Bel", "Hol", "None", "None">>, <<"Bel", "NTH", "None", "None">>,
    <<"Bel", "ENG", "None", "None">>, <<"Hol", "NTH", "None", "None">>,
    <<"Hol", "HEL", "None", "None">>, <<"Den", "Swe", "None", "None">>,
    <<"Den", "HEL", "None", "None">>, <<"Den", "SKA", "None", "None">>,
    <<"Den", "BAL", "None", "None">>, <<"Swe", "Nwy", "None", "None">>,
    <<"Swe", "SKA", "None", "None">>, <<"Swe", "BAL", "None", "None">>,
    <<"Swe", "BOT", "None", "None">>, <<"Nwy", "NWG", "None", "None">>,
    <<"Nwy", "NTH", "None", "None">>, <<"Nwy", "SKA", "None", "None">>,
    <<"Nwy", "BAR", "None", "None">>, <<"Spa", "Por", "None", "None">>,
    <<"Spa", "Gas", "None", "None">>, <<"Spa", "MAO", "nc", "None">>,
    <<"Spa", "MAO", "sc", "None">>, <<"Spa", "WES", "sc", "None">>, <<"Spa", "LYO", "sc", "None">>,
    <<"Por", "MAO", "None", "None">>, <<"Tun", "WES", "None", "None">>,
    <<"Tun", "TYS", "None", "None">>, <<"Tun", "ION", "None", "None">>,
    <<"Ser", "Alb", "None", "None">>, <<"Ser", "Gre", "None", "None">>,
    <<"Ser", "Bul", "None", "None">>, <<"Ser", "Rum", "None", "None">>,
    <<"Bul", "Gre", "sc", "None">>, <<"Bul", "Rum", "None", "None">>,
    <<"Bul", "AEG", "sc", "None">>, <<"Bul", "BLA", "ec", "None">>,
    <<"Rum", "BLA", "None", "None">>, <<"Gre", "Alb", "None", "None">>,
    <<"Gre", "AEG", "None", "None">>, <<"Gre", "ION", "None", "None">>,
    <<"Alb", "ADR", "None", "None">>, <<"Alb", "ION", "None", "None">>,
    <<"NTH", "NWG", "None", "None">>, <<"NTH", "SKA", "None", "None">>,
    <<"NTH", "HEL", "None", "None">>, <<"NTH", "ENG", "None", "None">>,
    <<"NTH", "Den", "None", "None">>, <<"NWG", "NAO", "None", "None">>,
    <<"NWG", "BAR", "None", "None">>, <<"ENG", "IRI", "None", "None">>,
    <<"ENG", "MAO", "None", "None">>, <<"IRI", "NAO", "None", "None">>,
    <<"IRI", "MAO", "None", "None">>, <<"MAO", "NAO", "None", "None">>,
    <<"MAO", "WES", "None", "None">>, <<"HEL", "SKA", "None", "None">>,
    <<"HEL", "BAL", "None", "None">>, <<"SKA", "BAL", "None", "None">>,
    <<"BAL", "BOT", "None", "None">>, <<"WES", "LYO", "None", "None">>,
    <<"WES", "TYS", "None", "None">>, <<"LYO", "TYS", "None", "None">>,
    <<"TYS", "ION", "None", "None">>, <<"ION", "ADR", "None", "None">>,
    <<"ION", "AEG", "None", "None">>, <<"ION", "EAS", "None", "None">>,
    <<"AEG", "EAS", "None", "None">>, <<"AEG", "BLA", "None", "None">>
}

\* Map.add_adjacency stores every entry in both directions.
Adjacencies ==
    AdjacencyTable \cup {<<a[2], a[1], a[4], a[3]>> : a \in AdjacencyTable}

\* self.adjacencies[from]: the (to, from_coast, to_coast) entries of a province.
AdjacencyOf ==
    [f \in Provinces |-> {<<a[2], a[3], a[4]>> : a \in {b \in Adjacencies : b[1] = f}}]

\* Map.is_adjacent(from_abbr, to_abbr, from_coast, to_coast).
IsAdjacent(from, to, from_coast, to_coast) ==
    IF from \notin Provinces THEN FALSE
    ELSE LET pairs == {<<e[2], e[3]>> : e \in {x \in AdjacencyOf[from] : x[1] = to}}
         IN  IF pairs = {} THEN FALSE
             ELSE IF from_coast = None /\ to_coast = None THEN TRUE
             ELSE <<from_coast, to_coast>> \in pairs

\* Map.get_adjacent_provinces(abbr, from_coast), as a set.
GetAdjacentProvinces(abbr, from_coast) ==
    IF abbr \notin Provinces THEN {}
    ELSE {e[1] : e \in {x \in AdjacencyOf[abbr] : from_coast = None \/ x[2] = from_coast}}

(***************************************************************************)
(* core/game_state.py: units and the board.                                *)
(***************************************************************************)
\* A Unit object: its fields and the counter that makes get_id() unique.
Unit(id, power, unit_type, location, coast) ==
    [id |-> id, power |-> power, unit_type |-> unit_type,
     location |-> location, coast |-> coast]

\* The value standing for "no unit" (Python's None where a Unit is expected).
NoUnit == Unit(0, None, None, None, None)

\* GameState.get_unit_at(location, coast): the first unit of the table there.
GetUnitAt(us, location, coast) ==
    LET at == {i \in 1..Len(us) : /\ us[i].location = location
                                  /\ (coast = None \/ us[i].coast = coast)}
    IN  IF at = {} THEN NoUnit ELSE us[Min(at)]

\* GameState.units.get(unit_id).
UnitById(us, id) ==
    LET at == {i \in 1..Len(us) : us[i].id = id}
    IN  IF at = {} THEN NoUnit ELSE us[Min(at)]

\* GameState.remove_unit(unit_id): units.pop(unit_id, None).
RemoveUnit(us, id) == SelectSeq(us, LAMBDA u : u.id # id)

\* GameState.add_unit(unit): a new key goes to the end of the table.
AddUnit(us, u) == Append(us, u)

\* GameState.get_units_by_power / get_unit_count / get_sc_count.
GetUnitsByPower(us, power) == SelectSeq(us, LAMBDA u : u.power = power)
GetUnitCount(us, power) == Len(GetUnitsByPower(us, power))
GetScCount(sc, power) == Cardinality({p \in DOMAIN sc : sc[p] = power})

\* GameState.set_sc_owner(province_abbr, power) for a power that is not None.
SetScOwner(sc, province, power) ==
    [p \in (DOMAIN sc) \cup {province} |-> IF p = province THEN power ELSE sc[p]]

\* A DislodgedUnit record.
DislodgedUnit(unit, dislodged_from, dislodger_origin, contested) ==
    [unit |-> unit, dislodged_from |-> dislodged_from,
     dislodger_origin |-> dislodger_origin, contested_provinces |-> contested]

(***************************************************************************)
(* core/orders.py: the order objects.  One record shape serves every       *)
(* kind; the fields a kind does not have are None.  An order is stored in  *)
(* the order table under the id of its unit.                               *)
(***************************************************************************)
OrderRecord(kind, unit, destination, dest_coast, via_convoy, sloc, scoast, army_loc) ==
    [kind |-> kind, unit |-> unit, destination |-> destination,
     dest_coast |-> dest_coast, via_convoy |-> via_convoy,
     supported_unit_location |-> sloc, supported_unit_coast |-> scoast,
     convoyed_army_location |-> army_loc]

NoOrder == OrderRecord("None", NoUnit, None, None, FALSE, None, None, None)

HoldOrder(unit) == OrderRecord("Hold", unit, None, None, FALSE, None, None, None)

MoveOrder(unit, destination, dest_coast, via_convoy) ==
    OrderRecord("Move", unit, destination, dest_coast, via_convoy, None, None, None)

\* destination = None is a support to hold.
SupportOrder(unit, sloc, scoast, destination, dest_coast) ==
    OrderRecord("Support", unit, destination, dest_coast, FALSE, sloc, scoast, None)

ConvoyOrder(unit, army_loc, destination) ==
    OrderRecord("Convoy", unit, destination, None, FALSE, None, None, army_loc)

\* SupportOrder.is_support_hold.
IsSupportHold(o) == o.destination = None

\* self.orders.get(unit_id).
GetOrder(os, id) ==
    LET at == {k \in 1..Len(os) : os[k].unit.id = id}
    IN  IF at = {} THEN NoOrder ELSE os[Min(at)]

(***************************************************************************)
(* core/resolver.py: MovementResolver.                                     *)
(***************************************************************************)
\* The safety limit of _determine_outcomes.
max_iterations == 100

\* _is_move_legal without its adjacency check: a resolver that accepts moves
\* between provinces that do not touch.
IsMoveLegalWithoutAdjacency(unit, order) ==
    IF unit.location = order.destination THEN FALSE
    ELSE IF ProvinceMissing(order.destination) THEN FALSE
    ELSE IF /\ unit.unit_type = "Army"
            /\ IsSea(order.destination) /\ ~order.via_convoy THEN FALSE
    ELSE IF /\ unit.unit_type = "Fleet"
            /\ IsLand(order.destination) /\ ~IsCoastal(order.destination) THEN FALSE
    ELSE TRUE

\* MovementResolver._is_move_legal(unit, order).
IsMoveLegal(unit, order) ==
    IF unit.location = order.destination THEN FALSE
    ELSE IF ProvinceMissing(order.destination) THEN FALSE
    ELSE IF /\ unit.unit_type = "Army"
            /\ IsSea(order.destination) /\ ~order.via_convoy THEN FALSE
    ELSE IF /\ unit.unit_type = "Fleet"
            /\ IsLand(order.destination) /\ ~IsCoastal(order.destination) THEN FALSE
    ELSE IF /\ ~order.via_convoy
            /\ ~IsAdjacent(unit.location, order.destination, unit.coast, order.dest_coast)
         THEN FALSE
    ELSE TRUE

\* MovementResolver._get_illegal_move_reason(unit, order).
GetIllegalMoveReason(unit, order) ==
    IF unit.location = order.destination THEN "Cannot move to same location"
    ELSE IF ProvinceMissing(order.destination) THEN "Destination province does not exist"
    ELSE IF /\ unit.unit_type = "Army"
            /\ IsSea(order.destination) /\ ~order.via_convoy
         THEN "Army cannot move to sea province (no convoy specified)"
    ELSE IF /\ unit.unit_type = "Fleet"
            /\ IsLand(order.destination) /\ ~IsCoastal(order.destination)
         THEN "Fleet cannot move to inland province"
    ELSE IF /\ ~order.via_convoy
            /\ ~IsAdjacent(unit.location, order.destination, unit.coast, order.dest_coast)
         THEN "Not adjacent"
    ELSE "Unknown reason"

\* A MoveAttempt as _identify_moves creates it.
MoveAttempt(unit, order) ==
    [unit |-> unit, origin |-> unit.location, destination |-> order.destination,
     dest_coast |-> order.dest_coast, via_convoy |-> order.via_convoy]

\* _identify_moves: the attempts of the legal move orders of units on the board, in
\* the order of the order table.  moves_to_province groups them by destination.
IdentifyMoves(us, os) ==
    LET legal == SelectSeq(os, LAMBDA o :
                     /\ UnitById(us, o.unit.id) # NoUnit
                     /\ o.kind = "Move"
                     /\ IsMoveLegal(UnitById(us, o.unit.id), o))
    IN  [i \in 1..Len(legal) |-> MoveAttempt(UnitById(us, legal[i].unit.id), legal[i])]

\* _identify_moves: the entries appended to illegal_orders.
IllegalOrders(us, os) ==
    LET bad == SelectSeq(os, LAMBDA o :
                   /\ UnitById(us, o.unit.id) # NoUnit
                   /\ o.kind = "Move"
                   /\ ~IsMoveLegal(UnitById(us, o.unit.id), o))
    IN  [i \in 1..Len(bad) |->
            LET u == UnitById(us, bad[i].unit.id)
            IN  [power |-> u.power, unit_type |-> u.unit_type, location |-> u.location,
                 destination |-> bad[i].destination,
                 reason |-> GetIllegalMoveReason(u, bad[i])]]

\* moves_to_province[destination]: the attempts into a province, by their index.
MovesTo(moves, destination) ==
    {i \in 1..Len(moves) : moves[i].destination = destination}

\* The keys of moves_to_province in insertion order.
RECURSIVE DestinationOrder(_, _)
DestinationOrder(moves, k) ==
    IF k > Len(moves) THEN << >>
    ELSE LET rest == DestinationOrder(moves, k + 1)
             d == moves[k].destination
         IN  <<d>> \o SelectSeq(rest, LAMBDA x : x # d)

\* The set S of numbers as an increasing sequence.
RECURSIVE SortedSeq(_)
SortedSeq(S) == IF S = {} THEN << >> ELSE <<Min(S)>> \o SortedSeq(S \ {Min(S)})

\* "for destination, attempts in moves_to_province.items(): for attempt in attempts".
RECURSIVE AttemptOrder(_, _, _)
AttemptOrder(moves, dests, k) ==
    IF k > Len(dests) THEN << >>
    ELSE SortedSeq(MovesTo(moves, dests[k])) \o AttemptOrder(moves, dests, k + 1)

\* _build_convoy_routes: convoy_routes[army id], the units holding a Convoy order
\* whose army location is that of the army (the first army of the table there).
ConvoyRoute(us, os, army_id) ==
    LET armyAt(loc) ==
            LET at == {i \in 1..Len(us) : us[i].location = loc /\ us[i].unit_type = "Army"}
            IN  IF at = {} THEN NoUnit ELSE us[Min(at)]
        conv == SelectSeq(os, LAMBDA o :
                    /\ o.kind = "Convoy"
                    /\ armyAt(o.convoyed_army_location) # NoUnit
                    /\ armyAt(o.convoyed_army_location).id = army_id)
    IN  [i \in 1..Len(conv) |-> conv[i].unit]

\* MovementResolver._is_support_valid(order).
IsSupportValid(us, os, order) ==
    LET supporting_unit == order.unit
        supported_unit == GetUnitAt(us, order.supported_unit_location, None)
        supported_order == GetOrder(os, supported_unit.id)
        target_location == IF order.destination # None THEN order.destination
                           ELSE order.supported_unit_location
        target_coast == IF order.destination # None THEN order.dest_coast
                        ELSE order.supported_unit_coast
    IN  IF IsSupportHold(order) /\ supporting_unit.location = order.supported_unit_location
        THEN FALSE
        ELSE IF ~IsSupportHold(order) /\ supporting_unit.location = order.destination
        THEN FALSE
        ELSE IF ~IsSupportHold(order) /\ supported_unit = NoUnit THEN FALSE
        ELSE IF /\ ~IsSupportHold(order)
                /\ supported_order.kind = "Move"
                /\ supported_order.destination # order.destination THEN FALSE
        ELSE IF ~IsAdjacent(supporting_unit.location, target_location,
                            supporting_unit.coast, target_coast) THEN FALSE
        ELSE IF ProvinceMissing(target_location) THEN FALSE
        ELSE IF supporting_unit.unit_type = "Army" /\ IsSea(target_location) THEN FALSE
        ELSE IF /\ supporting_unit.unit_type = "Fleet"
                /\ IsLand(target_location) /\ ~IsCoastal(target_location) THEN FALSE
        ELSE TRUE

\* Support cutting that also spares a support to hold from a move that comes from
\* the supported location: a resolver that differs from _apply_support_cutting.
SupportCuttingSparingSupportedLocation(os, moves) ==
    {os[k].unit.id : k \in
        {j \in 1..Len(os) :
            /\ os[j].kind = "Support"
            /\ \E i \in MovesTo(moves, os[j].unit.location) :
                  moves[i].origin # (IF os[j].destination # None THEN os[j].destination
                                     ELSE os[j].supported_unit_location)}}

\* _apply_support_cutting: the ids added to cut_supports.
ApplySupportCutting(os, moves) ==
    {os[k].unit.id : k \in
        {j \in 1..Len(os) :
            /\ os[j].kind = "Support"
            /\ \E i \in MovesTo(moves, os[j].unit.location) :
                  ~(os[j].destination # None /\ moves[i].origin = os[j].destination)}}

\* _calculate_strengths: the strength of attempt i, 1 plus the supports that are not
\* cut, are valid, and find attempt i first among the attempts into their target.
CalculateStrength(us, os, moves, cut, i) ==
    1 + Cardinality(
        {k \in 1..Len(os) :
            /\ os[k].kind = "Support"
            /\ os[k].unit.id \notin cut
            /\ IsSupportValid(us, os, os[k])
            /\ LET target_dest == IF os[k].destination # None THEN os[k].destination
                                  ELSE os[k].supported_unit_location
                   from == {j \in MovesTo(moves, target_dest) :
                               moves[j].origin = os[k].supported_unit_location}
               IN  from # {} /\ Min(from) = i})

\* The defense strength loop of _determine_outcomes: 1 plus the valid, uncut
\* supports to hold of the destination.
DefenseStrength(us, os, cut, destination) ==
    1 + Cardinality(
        {k \in 1..Len(os) :
            /\ os[k].kind = "Support"
            /\ IsSupportHold(os[k])
            /\ os[k].supported_unit_location = destination
            /\ os[k].unit.id \notin cut
            /\ IsSupportValid(us, os, os[k])})

\* Phases 4 and 5 of MovementResolver.resolve, from the attempts and cut_supports.
TablesOfCutting(us, os, moves, cut) ==
    [units |-> us, orders |-> os, moves |-> moves,
     dests |-> DestinationOrder(moves, 1),
     cut_supports |-> cut,
     strength |-> [i \in 1..Len(moves) |-> CalculateStrength(us, os, moves, cut, i)],
     illegal_orders |-> IllegalOrders(us, os)]

\* Phases 2 to 5 of MovementResolver.resolve, from the attempts.
TablesOfMoves(us, os, moves) ==
    TablesOfCutting(us, os, moves, ApplySupportCutting(os, moves))

\* The resolver's tables once supports are cut and strengths recalculated (phases
\* 1 to 5 of MovementResolver.resolve; the strengths of phase 3 are reset and
\* calculated again in phase 5, so only those of phase 5 remain).
ResolverTables(us, os) == TablesOfMoves(us, os, IdentifyMoves(us, os))

\* "isinstance(defender_order, MoveOrder) and self._is_move_legal(defender, order)"
\* for the unit standing in a destination.
DefenderHasLegalMove(c, defender) ==
    /\ defender # NoUnit
    /\ GetOrder(c.orders, defender.id).kind = "Move"
    /\ IsMoveLegal(defender, GetOrder(c.orders, defender.id))

\* The flags of the attempts while _determine_outcomes runs: the attempts with
\* is_successful, those with is_bounced, resolved_destinations, made_progress.
StartFlags == [succ |-> {}, boun |-> {}, resolved |-> {}, progress |-> FALSE]

\* One turn of "for destination, attempts in self.moves_to_province.items()" in the
\* first pass of _determine_outcomes.
ResolveDestination(c, st, destination) ==
    LET attempts == MovesTo(c.moves, destination)
        nonConvoy == {i \in attempts : ~c.moves[i].via_convoy}
        defender == GetUnitAt(c.units, destination, None)
        legalMove == DefenderHasLegalMove(c, defender)
        defender_dest == GetOrder(c.orders, defender.id).destination
        destMoves == MovesTo(c.moves, defender_dest)
        own == {j \in destMoves : c.moves[j].unit.id = defender.id}
        mustWait == legalMove /\ destMoves # {} /\ defender_dest \notin st.resolved
        movingOut == /\ legalMove
                     /\ IF destMoves # {} THEN own # {} /\ Min(own) \in st.succ ELSE TRUE
        defense_strength ==
            IF defender # NoUnit /\ ~movingOut
            THEN DefenseStrength(c.units, c.orders, c.cut_supports, destination)
            ELSE 0
        done == [st EXCEPT !.resolved = @ \cup {destination}, !.progress = TRUE]
        max_strength == CHOOSE s \in {c.strength[i] : i \in nonConvoy} :
                            \A i \in nonConvoy : c.strength[i] <= s
        strongest == {i \in nonConvoy : c.strength[i] = max_strength}
    IN  IF destination \in st.resolved THEN st
        ELSE IF attempts = {} THEN [st EXCEPT !.resolved = @ \cup {destination}]
        ELSE IF nonConvoy = {} THEN st
        ELSE IF mustWait THEN st
        ELSE IF Cardinality(attempts) = 1
        THEN LET i == Min(attempts)
             IN  IF c.strength[i] > defense_strength
                 THEN [done EXCEPT !.succ = @ \cup {i}]
                 ELSE [done EXCEPT !.boun = @ \cup {i}]
        ELSE IF Cardinality(strongest) = 1 /\ max_strength > defense_strength
        THEN [done EXCEPT !.succ = @ \cup strongest,
                          !.boun = @ \cup (nonConvoy \ strongest)]
        ELSE [done EXCEPT !.boun = @ \cup nonConvoy]

\* One run of the for loop over all destinations.
RECURSIVE RunPass(_, _, _)
RunPass(c, st, k) ==
    IF k > Len(c.dests) THEN st
    ELSE RunPass(c, ResolveDestination(c, st, c.dests[k]), k + 1)

\* "if not made_progress": every attempt left unresolved is bounced.
BounceUnresolved(c, st) ==
    [st EXCEPT
        !.boun = @ \cup {i \in 1..Len(c.moves) :
                            /\ c.moves[i].destination \notin st.resolved
                            /\ ~c.moves[i].via_convoy
                            /\ i \notin st.succ /\ i \notin st.boun},
        !.resolved = @ \cup {c.dests[k] : k \in 1..Len(c.dests)}]

\* An iteration that leaves the unresolved attempts as they are.
EndPassWithoutBounce(c, p) == p

\* The end of one iteration of the while loop, p being the flags after its for loop.
EndPass(c, p) == IF p.progress THEN p ELSE BounceUnresolved(c, p)

\* The while loop of _determine_outcomes.
RECURSIVE FirstPass(_, _, _)
FirstPass(c, st, iteration) ==
    IF Cardinality(st.resolved) < Len(c.dests) /\ iteration < max_iterations
    THEN FirstPass(c, EndPass(c, RunPass(c, [st EXCEPT !.progress = FALSE], 1)),
                   iteration + 1)
    ELSE st

\* The fixpoint of the breadth-first search of _find_convoy_path: the provinces it
\* visits, the origin and the sea provinces with a convoying fleet reached from it.
RECURSIVE ConvoyReach(_, _)
ConvoyReach(visited, fleet_zones) ==
    LET more == {z \in fleet_zones \ visited :
                    /\ IsSea(z)
                    /\ \E v \in visited : z \in GetAdjacentProvinces(v, None)}
    IN  IF more = {} THEN visited ELSE ConvoyReach(visited \cup more, fleet_zones)

\* MovementResolver._find_convoy_path(origin, destination, convoy_fleets).
FindConvoyPath(origin, destination, convoy_fleets) ==
    LET fleet_zones == {convoy_fleets[i].location : i \in 1..Len(convoy_fleets)}
        stop == {destination}
        visited == ConvoyReach({origin}, fleet_zones \ stop)
    IN  \/ origin = destination
        \/ \E v \in visited : destination \in GetAdjacentProvinces(v, None)

\* MovementResolver._is_convoy_valid(attempt), given the flags set so far.
IsConvoyValid(c, st, attempt) ==
    LET convoy_fleets == ConvoyRoute(c.units, c.orders, attempt.unit.id)
    IN  /\ Len(convoy_fleets) > 0
        /\ FindConvoyPath(attempt.origin, attempt.destination, convoy_fleets)
        /\ \E f \in 1..Len(convoy_fleets) :
              ~\E i \in MovesTo(c.moves, convoy_fleets[f].location) : i \in st.succ

\* One turn of the second pass of _determine_outcomes, for attempt i.
ResolveConvoyAttempt(c, st, i) ==
    LET attempt == c.moves[i]
        defender == GetUnitAt(c.units, attempt.destination, None)
        held == IF defender # NoUnit
                THEN DefenseStrength(c.units, c.orders, c.cut_supports, attempt.destination)
                ELSE 0
        defense_strength == IF DefenderHasLegalMove(c, defender) THEN 0 ELSE held
    IN  IF ~(attempt.via_convoy /\ i \notin st.succ /\ i \notin st.boun) THEN st
        ELSE IF ~IsConvoyValid(c, st, attempt) THEN [st EXCEPT !.boun = @ \cup {i}]
        ELSE IF defense_strength = 0 \/ c.strength[i] > defense_strength
        THEN [st EXCEPT !.succ = @ \cup {i}]
        ELSE [st EXCEPT !.boun = @ \cup {i}]

\* The second pass of _determine_outcomes over the attempts in table order.
RECURSIVE SecondPass(_, _, _, _)
SecondPass(c, st, order, k) ==
    IF k > Len(order) THEN st
    ELSE SecondPass(c, ResolveConvoyAttempt(c, st, order[k]), order, k + 1)

\* MovementResolver._determine_outcomes: the final flags of the attempts.
DetermineOutcomes(c) ==
    SecondPass(c, FirstPass(c, StartFlags, 0), AttemptOrder(c.moves, c.dests, 1), 1)

\* _apply_moves: the unit standing in the destination leaves it, its own attempt
\* being successful.
DefenderMovingOut(c, st, defender) ==
    /\ DefenderHasLegalMove(c, defender)
    /\ \E j \in MovesTo(c.moves, GetOrder(c.orders, defender.id).destination) :
          c.moves[j].unit.id = defender.id /\ j \in st.succ

\* _apply_moves: the provinces of the attempts that bounced.
ContestedProvinces(c, st) == {c.moves[i].destination : i \in st.boun}

\* _apply_moves: the ids of the support orders _is_support_valid rejects.
InvalidSupports(us, os) ==
    {os[k].unit.id : k \in {j \in 1..Len(os) :
        os[j].kind = "Support" /\ ~IsSupportValid(us, os, os[j])}}

\* One turn of "for attempt in attempts" in _apply_moves, on the new state acc:
\* a successful attempt dislodges the unit standing in its destination unless
\* that unit moves out, and the moving unit is replaced by a new Unit object.
\* Unit.__post_init__ raises ValueError for an army with a coast.
ApplyAttempt(c, st, fall, acc, i) ==
    LET attempt == c.moves[i]
        defender == GetUnitAt(c.units, attempt.destination, None)
        dislodges == /\ defender # NoUnit
                     /\ defender.id # attempt.unit.id
                     /\ ~DefenderMovingOut(c, st, defender)
        afterDislodge == IF dislodges THEN RemoveUnit(acc.units, defender.id)
                         ELSE acc.units
        new_unit == Unit(acc.next_id, attempt.unit.power, attempt.unit.unit_type,
                         attempt.destination, attempt.dest_coast)
    IN  IF i \notin st.succ \/ acc.raised THEN acc
        ELSE IF attempt.unit.unit_type = "Army" /\ attempt.dest_coast # None
        THEN [acc EXCEPT !.raised = TRUE]
        ELSE [units |-> AddUnit(RemoveUnit(afterDislodge, attempt.unit.id), new_unit),
              dislodged_units |->
                  IF dislodges
                  THEN Append(acc.dislodged_units,
                              DislodgedUnit(defender, attempt.destination, attempt.origin,
                                            ContestedProvinces(c, st)))
                  ELSE acc.dislodged_units,
              supply_centers |->
                  IF fall /\ attempt.destination \in SupplyCenterProvinces
                  THEN SetScOwner(acc.supply_centers, attempt.destination,
                                  attempt.unit.power)
                  ELSE acc.supply_centers,
              next_id |-> acc.next_id + 1,
              raised |-> FALSE]

\* The loop "Apply successful moves" of _apply_moves.
RECURSIVE ApplyAttempts(_, _, _, _, _, _)
ApplyAttempts(c, st, fall, acc, order, k) ==
    IF k > Len(order) THEN acc
    ELSE ApplyAttempts(c, st, fall, ApplyAttempt(c, st, fall, acc, order[k]), order, k + 1)

\* "Update SC ownership for ALL units on supply centers at end of Fall".
RECURSIVE UpdateOwnership(_, _, _)
UpdateOwnership(sc, us, k) ==
    IF k > Len(us) THEN sc
    ELSE UpdateOwnership(
             IF us[k].location \in SupplyCenterProvinces
             THEN SetScOwner(sc, us[k].location, us[k].power) ELSE sc,
             us, k + 1)

\* move_results of _apply_moves, a label and a province for every unit.
MoveResults(c, st) ==
    [id \in {c.units[k].id : k \in 1..Len(c.units)} |->
        LET own == {i \in 1..Len(c.moves) : c.moves[i].unit.id = id}
        IN  IF own # {} /\ Min(own) \in st.succ
            THEN <<"Successfully moved to", c.moves[Min(own)].destination>>
            ELSE IF own # {} /\ Min(own) \in st.boun
            THEN <<"Bounced from", c.moves[Min(own)].destination>>
            ELSE <<"Held position", None>>]

\* The return statement of _apply_moves: the ResolutionResult, with the game state
\* that was given, the fields of the new state acc, and the resolver's tables
\* (moves_to_province with strengths and flags).
ResolutionResult(c, st, sc, fall, next, acc) ==
    [kind |-> "movement",
     game_state |-> [units |-> c.units, supply_centers |-> sc, fall |-> fall,
                     next_id |-> next],
     raised |-> acc.raised,
     units |-> acc.units,
     supply_centers |-> IF fall THEN UpdateOwnership(acc.supply_centers, acc.units, 1)
                        ELSE acc.supply_centers,
     dislodged_units |-> acc.dislodged_units,
     next_id |-> acc.next_id,
     move_results |-> MoveResults(c, st),
     contested_provinces |-> ContestedProvinces(c, st),
     invalid_supports |-> InvalidSupports(c.units, c.orders),
     cut_supports |-> c.cut_supports,
     illegal_orders |-> c.illegal_orders,
     moves |-> c.moves,
     strength |-> c.strength,
     successful |-> st.succ,
     bounced |-> st.boun]

\* MovementResolver._apply_moves, from the tables c and the flags st.  clone()
\* builds a new Unit for every unit, and each takes a value of the id counter.
ApplyMoves(c, st, sc, fall, next) ==
    ResolutionResult(c, st, sc, fall, next,
        ApplyAttempts(c, st, fall,
                      [units |-> c.units, dislodged_units |-> << >>,
                       supply_centers |-> sc, next_id |-> next + Len(c.units),
                       raised |-> FALSE],
                      AttemptOrder(c.moves, c.dests, 1), 1))

\* A resolution that updates the ownership in every season.
ResolveFromTablesInAnySeason(c, sc, fall, next) ==
    ApplyMoves(c, DetermineOutcomes(c), sc, TRUE, next)

\* Phases 6 and 7 of MovementResolver.resolve.
ResolveFromTables(c, sc, fall, next) == ApplyMoves(c, DetermineOutcomes(c), sc, fall, next)

\* resolve_movement_phase(game_state, orders): MovementResolver(...).resolve().
ResolveMovementPhase(us, os, sc, fall, next) ==
    ResolveFromTables(ResolverTables(us, os), sc, fall, next)
(***************************************************************************)
(* The inputs: boards and order sets.                                      *)
(***************************************************************************)
\* Order sets hold at most MaxOrders orders; the other units hold by default.
MaxOrders == 5

\* Orders before they are given to a unit.
Hold == HoldOrder(NoUnit)
Mv(destination) == MoveOrder(NoUnit, destination, None, FALSE)
MvConvoy(destination) == MoveOrder(NoUnit, destination, None, TRUE)
MvCoast(destination, coast) == MoveOrder(NoUnit, destination, coast, FALSE)
SupHold(sloc) == SupportOrder(NoUnit, sloc, None, None, None)
SupMove(sloc, destination) == SupportOrder(NoUnit, sloc, None, destination, None)
Convoy(army_loc, destination) == ConvoyOrder(NoUnit, army_loc, destination)

\* Silesia and Prussia: land battles, supports, head-to-head moves.
BoardSilesia ==
    [units |-> <<Unit(1, "Germany", "Army", "Ber", None),
                 Unit(2, "Germany", "Army", "Mun", None),
                 Unit(3, "Germany", "Army", "Sil", None),
                 Unit(4, "Russia", "Army", "War", None),
                 Unit(5, "Russia", "Fleet", "Pru", None)>>,
     menus |-> <<{NoOrder, Mv("Mun"), Mv("Sil"), Mv("Pru"), Mv("War"), SupHold("Sil")},
                 {NoOrder, Mv("Ber"), Mv("Sil"), Mv("Mun"), SupHold("Ber")},
                 {NoOrder, SupMove("Ber", "Mun"), SupMove("Ber", "Pru"), SupMove("Pru", "Ber"),
                  SupHold("Ber"), Mv("Mun"), Mv("War")},
                 {NoOrder, Mv("Sil"), Mv("Pru"), SupMove("Pru", "Sil"), SupHold("Pru")},
                 {NoOrder, Mv("Sil"), Mv("Ber"), Mv("BAL"), SupMove("War", "Sil"),
                  SupHold("War")}>>]

\* The Channel with Belgium vacant: convoys beside overland moves.
BoardChannel ==
    [units |-> <<Unit(1, "England", "Army", "Lon", None),
                 Unit(2, "England", "Fleet", "ENG", None),
                 Unit(3, "France", "Army", "Pic", None)>>,
     menus |-> <<{NoOrder, Hold, MvConvoy("Bel"), Mv("Bel"), MvConvoy("Pic"), Mv("Wal"),
                  Mv("ENG"), MvConvoy("ENG"), Mv("Lon"), Mv("Xyz")},
                 {NoOrder, Convoy("Lon", "Bel"), Convoy("Lon", "Pic"), Convoy("Pic", "Bel"),
                  Mv("Bel"), Mv("Bur"), Mv("Pic"), SupHold("Pic"), SupHold("Lon"),
                  SupMove("Pic", "Bel")},
                 {NoOrder, Mv("Bel"), MvConvoy("Bel"), MvConvoy("Lon"), Mv("Bur"),
                  MvConvoy("ENG"), SupMove("Lon", "Bel"), SupHold("ENG")}>>]

\* The Channel with two armies and three fleets: convoys under attack.
BoardFleets ==
    [units |-> <<Unit(1, "England", "Army", "Lon", None),
                 Unit(2, "England", "Fleet", "ENG", None),
                 Unit(3, "France", "Army", "Pic", None),
                 Unit(4, "France", "Fleet", "Bre", None),
                 Unit(5, "France", "Fleet", "NTH", None)>>,
     menus |-> <<{NoOrder, MvConvoy("Bel"), Mv("Wal")},
                 {NoOrder, Convoy("Lon", "Bel"), SupHold("Lon"), Mv("Lon")},
                 {NoOrder, MvConvoy("ENG"), Mv("Bel"), MvConvoy("Bel")},
                 {NoOrder, SupMove("Pic", "ENG"), SupMove("NTH", "ENG"), Mv("ENG")},
                 {NoOrder, Convoy("Pic", "ENG"), Convoy("Lon", "Bel"), Mv("ENG")}>>]

\* The Channel with Belgium held: two convoyed armies against one province.
BoardBelgium ==
    [units |-> <<Unit(1, "England", "Army", "Lon", None),
                 Unit(2, "England", "Fleet", "ENG", None),
                 Unit(3, "France", "Army", "Pic", None),
                 Unit(4, "France", "Fleet", "Bre", None),
                 Unit(5, "France", "Fleet", "NTH", None),
                 Unit(6, "Germany", "Army", "Bel", None)>>,
     menus |-> <<{NoOrder, MvConvoy("Bel")},
                 {NoOrder, Convoy("Lon", "Bel"), Convoy("Pic", "Bel"), SupMove("Pic", "Bel")},
                 {NoOrder, MvConvoy("Bel"), Mv("Bel"), SupHold("Bel")},
                 {NoOrder, Mv("ENG"), SupMove("Pic", "Bel")},
                 {NoOrder, Convoy("Pic", "Bel"), Convoy("Lon", "Bel"), SupMove("Lon", "Bel"),
                  SupHold("Bel")},
                 {NoOrder, MvConvoy("Lon"), Mv("Hol"), SupHold("Pic"), Mv("Pic")}>>]

\* St Petersburg: a fleet on a coast of a province with two coasts.
BoardStPetersburg ==
    [units |-> <<Unit(1, "Russia", "Fleet", "StP", "sc"),
                 Unit(2, "Russia", "Army", "Mos", None),
                 Unit(3, "England", "Fleet", "BAR", None),
                 Unit(4, "England", "Army", "Fin", None)>>,
     menus |-> <<{NoOrder, Mv("BOT"), Mv("BAR"), Mv("Fin"), Mv("Mos"), SupHold("Mos"),
                  SupHold("Fin")},
                 {NoOrder, Mv("StP"), Mv("Lvn"), Mv("Fin"), SupHold("StP")},
                 {NoOrder, Mv("StP"), MvCoast("StP", "nc"), MvCoast("StP", "sc"),
                  SupMove("Fin", "StP")},
                 {NoOrder, Mv("StP"), Mv("Nwy"), Mv("BOT"), SupMove("BAR", "StP")}>>]

Boards == {BoardSilesia, BoardChannel, BoardFleets, BoardBelgium, BoardStPetersburg}

\* One order, or none, for each unit of a board.
RECURSIVE Assignments(_, _)
Assignments(menus, k) ==
    IF k > Len(menus) THEN {<< >>}
    ELSE {<<o>> \o rest : o \in menus[k], rest \in Assignments(menus, k + 1)}

\* The order in which the orders enter the order table: by unit, or the reverse.
InsertionOrders(n) == {[i \in 1..n |-> i], [i \in 1..n |-> n + 1 - i]}

\* The order table of an assignment: dict[unit.get_id()] = order, in insertion order.
OrderTable(us, assignment, insertion) ==
    LET given == SelectSeq(insertion, LAMBDA i : assignment[i] # NoOrder)
    IN  [k \in 1..Len(given) |-> [assignment[given[k]] EXCEPT !.unit = us[given[k]]]]

OrderTables(board) ==
    {OrderTable(board.units, a, p) :
        a \in {b \in Assignments(board.menus, 1) :
                  Cardinality({i \in 1..Len(b) : b[i] # NoOrder}) <= MaxOrders},
        p \in InsertionOrders(Len(board.units))}

\* create_starting_state: every home supply center belongs to its power.
StartingSupplyCenters ==
    [p \in {q \in SupplyCenterProvinces : HomeCenterOf(q) # None} |-> HomeCenterOf(p)]

(***************************************************************************)
(* The state: a GameState, the pending order table, the last resolution.   *)
(***************************************************************************)
VARIABLES
    units,            \* GameState.units, in insertion order
    supply_centers,   \* GameState.supply_centers
    year,             \* GameState.year
    season,           \* GameState.season
    previous_season,  \* GameState.previous_season
    dislodged_units,  \* GameState.dislodged_units
    orders,           \* the order table handed to the resolver
    next_id,          \* Unit._next_id
    resolution,       \* the last ResolutionResult, with the board it was given
    pc                \* "orders": orders are in; "resolved": they were resolved

vars == <<units, supply_centers, year, season, previous_season, dislodged_units,
          orders, next_id, resolution, pc>>

NoResolution == [kind |-> "none"]

Init ==
    \E board \in Boards :
        /\ units = board.units
        /\ orders \in OrderTables(board)
        /\ supply_centers = StartingSupplyCenters
        /\ year = 1901
        /\ season \in {"Spring", "Fall"}
        /\ previous_season = None
        /\ dislodged_units = << >>
        /\ next_id = Len(board.units) + 1
        /\ resolution = NoResolution
        /\ pc = "orders"

\* The caller keeps result.new_state; a ValueError leaves its state as it was.
KeepResult(r) ==
    /\ resolution' = r
    /\ units' = IF r.raised THEN units ELSE r.units
    /\ supply_centers' = IF r.raised THEN supply_centers ELSE r.supply_centers
    /\ dislodged_units' = IF r.raised THEN dislodged_units ELSE r.dislodged_units
    /\ next_id' = r.next_id

\* resolve_movement_phase(game_state, orders) on the pending orders.
ResolveMovement ==
    /\ pc = "orders"
    /\ season \in {"Spring", "Fall"}
    /\ KeepResult(ResolveMovementPhase(units, orders, supply_centers, season = "Fall",
                                       next_id))
    /\ pc' = "resolved"
    /\ UNCHANGED <<year, season, previous_season, orders>>

Next == ResolveMovement

Spec == Init /\ [][Next]_vars


(***************************************************************************)
(* core/orders.py: the orders of the retreat and winter phases.            *)
(***************************************************************************)
RetreatOrder(unit, destination, dest_coast) ==
    OrderRecord("Retreat", unit, destination, dest_coast, FALSE, None, None, None)

DisbandOrder(unit) == OrderRecord("Disband", unit, None, None, FALSE, None, None, None)

\* A BuildOrder: it names a power, not a unit.
BuildOrder(power, unit_type, location, coast) ==
    [power |-> power, unit_type |-> unit_type, location |-> location, coast |-> coast]

(***************************************************************************)
(* core/resolver.py: RetreatResolver.                                      *)
(***************************************************************************)
\* The destinations a retreat may name when the dislodger's origin is not excluded.
RetreatDestinationsWithDislodgerOrigin(d, us) ==
    {p \in GetAdjacentProvinces(d.dislodged_from, d.unit.coast) :
        /\ p \notin d.contested_provinces
        /\ ~ProvinceMissing(p)
        /\ ~(d.unit.unit_type = "Army" /\ IsSea(p))
        /\ ~(d.unit.unit_type = "Fleet" /\ IsLand(p))
        /\ GetUnitAt(us, p, None) = NoUnit}

\* The destinations a retreat may name when the contested provinces are not excluded.
RetreatDestinationsWithContested(d, us) ==
    {p \in GetAdjacentProvinces(d.dislodged_from, d.unit.coast) :
        /\ p # d.dislodger_origin
        /\ ~ProvinceMissing(p)
        /\ ~(d.unit.unit_type = "Army" /\ IsSea(p))
        /\ ~(d.unit.unit_type = "Fleet" /\ IsLand(p))
        /\ GetUnitAt(us, p, None) = NoUnit}

\* DislodgedUnit.get_valid_retreat_destinations(game_map, game_state).
GetValidRetreatDestinations(d, us) ==
    {p \in GetAdjacentProvinces(d.dislodged_from, d.unit.coast) :
        /\ p # d.dislodger_origin
        /\ p \notin d.contested_provinces
        /\ ~ProvinceMissing(p)
        /\ ~(d.unit.unit_type = "Army" /\ IsSea(p))
        /\ ~(d.unit.unit_type = "Fleet" /\ IsLand(p))
        /\ GetUnitAt(us, p, None) = NoUnit}

\* self.retreat_orders.get(unit_id); the table is a function of unit ids.
GetRetreatOrder(ro, id) == IF id \in DOMAIN ro THEN ro[id] ELSE NoOrder

\* The first loop of resolve, for one dislodged unit: the key of retreat_destinations
\* it is appended to, or None when the unit is disbanded.
RetreatDestinationOf(d, us, order) ==
    IF order.kind = "Retreat" /\ order.destination \in GetValidRetreatDestinations(d, us)
    THEN order.destination
    ELSE None

RetreatDestinations(ds, us, ro) ==
    [k \in 1..Len(ds) |-> RetreatDestinationOf(ds[k], us, GetRetreatOrder(ro, ds[k].unit.id))]

\* The keys of retreat_destinations in insertion order, each as the index of the
\* first dislodged unit that retreats there.
RetreatKeys(dests) ==
    SelectSeq([k \in 1..Len(dests) |-> k],
              LAMBDA k : dests[k] # None /\ \A j \in 1..(k - 1) : dests[j] # dests[k])

\* The second loop of resolve: a destination with one retreating unit receives a new
\* Unit without a coast; a destination with several receives none.
RECURSIVE ApplyRetreats(_, _, _, _, _)
ApplyRetreats(ds, dests, keys, k, acc) ==
    IF k > Len(keys) THEN acc
    ELSE ApplyRetreats(ds, dests, keys, k + 1,
             IF Cardinality({j \in 1..Len(dests) : dests[j] = dests[keys[k]]}) = 1
             THEN [units |-> AddUnit(acc.units,
                                 Unit(acc.next_id, ds[keys[k]].unit.power,
                                      ds[keys[k]].unit.unit_type, dests[keys[k]], None)),
                   next_id |-> acc.next_id + 1]
             ELSE acc)

\* The state resolve returns, with the state and the orders it was given.
RetreatResult(us, ds, sc, ro, dests, acc) ==
    [kind |-> "retreat",
     game_state |-> [units |-> us, dislodged_units |-> ds, supply_centers |-> sc],
     orders |-> ro,
     destinations |-> dests,
     raised |-> FALSE,
     units |-> acc.units,
     supply_centers |-> sc,
     dislodged_units |-> << >>,
     next_id |-> acc.next_id]

RetreatsFrom(us, ds, sc, ro, next, dests) ==
    RetreatResult(us, ds, sc, ro, dests,
        ApplyRetreats(ds, dests, RetreatKeys(dests), 1,
                      [units |-> us, next_id |-> next + Len(us) + Len(ds)]))

\* resolve_retreat_phase(game_state, retreat_orders).
ResolveRetreatPhase(us, ds, sc, ro, next) ==
    RetreatsFrom(us, ds, sc, ro, next, RetreatDestinations(ds, us, ro))

(***************************************************************************)
(* gamemaster/phase_manager.py: PhaseManager.                              *)
(***************************************************************************)
\* A next phase that does not look at previous_season.
DetermineNextPhaseIgnoringPrevious(s, prev, has_dislodged_units) ==
    CASE s = "Spring" -> IF has_dislodged_units THEN "Retreat" ELSE "Fall"
      [] s = "Fall" -> IF has_dislodged_units THEN "Retreat" ELSE "Winter"
      [] s = "Retreat" -> "Winter"
      [] s = "Winter" -> "Spring"
      [] OTHER -> "Spring"

\* PhaseManager.determine_next_phase(state, has_dislodged_units).
DetermineNextPhase(s, prev, has_dislodged_units) ==
    CASE s = "Spring" -> IF has_dislodged_units THEN "Retreat" ELSE "Fall"
      [] s = "Fall" -> IF has_dislodged_units THEN "Retreat" ELSE "Winter"
      [] s = "Retreat" -> IF prev = "Spring" THEN "Fall" ELSE "Winter"
      [] s = "Winter" -> "Spring"
      [] OTHER -> "Spring"

\* A phase change that never turns the year.
AdvanceToSameYear(next_season, y, prev, ds) ==
    [season |-> next_season,
     year |-> y,
     dislodged_units |-> IF next_season # "Retreat" THEN << >> ELSE ds,
     previous_season |-> IF next_season # "Retreat" THEN None ELSE prev]

\* The assignments of PhaseManager.advance_phase once next_season is known.
AdvanceTo(next_season, y, prev, ds) ==
    [season |-> next_season,
     year |-> IF next_season = "Spring" THEN y + 1 ELSE y,
     dislodged_units |-> IF next_season # "Retreat" THEN << >> ELSE ds,
     previous_season |-> IF next_season # "Retreat" THEN None ELSE prev]

\* PhaseManager.advance_phase(state, has_dislodged_units).
PhaseManagerAdvancePhase(s, y, prev, ds, has_dislodged_units) ==
    AdvanceTo(DetermineNextPhase(s, prev, has_dislodged_units), y, prev, ds)

\* PhaseManager.update_sc_ownership(state).
UpdateScOwnership(sc, us) ==
    [p \in (DOMAIN sc) \cup {q \in SupplyCenterProvinces : GetUnitAt(us, q, None) # NoUnit} |->
        IF p \in SupplyCenterProvinces /\ GetUnitAt(us, p, None) # NoUnit
        THEN GetUnitAt(us, p, None).power
        ELSE sc[p]]

\* The threshold of check_victory.
VictoryCenters == 18

\* A check that asks for more than VictoryCenters supply centers.
CheckVictoryAboveThreshold(sc) ==
    LET winners == {i \in 1..Len(PowerOrder) : GetScCount(sc, PowerOrder[i]) > VictoryCenters}
    IN  IF winners = {} THEN None ELSE PowerOrder[Min(winners)]

\* GameState.check_victory / PhaseManager.check_victory: the first power, in enum
\* order, with VictoryCenters supply centers or more.
CheckVictory(sc) ==
    LET winners == {i \in 1..Len(PowerOrder) : GetScCount(sc, PowerOrder[i]) >= VictoryCenters}
    IN  IF winners = {} THEN None ELSE PowerOrder[Min(winners)]

(***************************************************************************)
(* core/resolver.py: WinterResolver.                                       *)
(***************************************************************************)
\* BuildOrder.is_valid when the province need not be vacant.
BuildIsValidOnOccupied(b, us, sc) ==
    /\ ~ProvinceMissing(b.location)
    /\ HomeCenterOf(b.location) = b.power
    /\ b.location \in DOMAIN sc
    /\ sc[b.location] = b.power
    /\ GetUnitCount(us, b.power) < GetScCount(sc, b.power)

\* BuildOrder.is_valid(game_state).
BuildIsValid(b, us, sc) ==
    /\ ~ProvinceMissing(b.location)
    /\ HomeCenterOf(b.location) = b.power
    /\ GetUnitAt(us, b.location, b.coast) = NoUnit
    /\ b.location \in DOMAIN sc
    /\ sc[b.location] = b.power
    /\ GetUnitCount(us, b.power) < GetScCount(sc, b.power)

\* Unit(power, unit_type, location, coast) of a build: __post_init__ raises a
\* ValueError for an army with a coast; the id counter is consumed before it does.
\* built keeps every build that was applied, with the board it was applied to.
BuildUnit(acc, b) ==
    [units |-> IF b.unit_type = "Army" /\ b.coast # None THEN acc.units
               ELSE AddUnit(acc.units, Unit(acc.next_id, b.power, b.unit_type, b.location,
                                            b.coast)),
     next_id |-> acc.next_id + 1,
     raised |-> b.unit_type = "Army" /\ b.coast # None,
     built |-> IF b.unit_type = "Army" /\ b.coast # None THEN acc.built
               ELSE Append(acc.built, [order |-> b, units |-> acc.units])]

\* The loop over power_builds: it stops after builds_needed valid builds.
RECURSIVE ApplyBuilds(_, _, _, _, _, _)
ApplyBuilds(builds, k, builds_applied, builds_needed, sc, acc) ==
    IF k > Len(builds) \/ builds_applied >= builds_needed \/ acc.raised THEN acc
    ELSE IF BuildIsValid(builds[k], acc.units, sc)
         THEN ApplyBuilds(builds, k + 1, builds_applied + 1, builds_needed, sc,
                          BuildUnit(acc, builds[k]))
         ELSE ApplyBuilds(builds, k + 1, builds_applied, builds_needed, sc, acc)

\* The first n elements of a sequence, or all of it.
Take(s, n) == SubSeq(s, 1, IF Len(s) < n THEN Len(s) ELSE n)

\* The units the disband orders select: every listed id that is on the board, in
\* order of listing, while fewer than disbands_needed are selected.
OrderedDisbands(us, ids, disbands_needed) ==
    Take(SelectSeq([k \in 1..Len(ids) |-> UnitById(us, ids[k])], LAMBDA u : u # NoUnit),
         disbands_needed)

\* The units of the power that fill up the selection when the orders name too few.
ArbitraryDisbands(power_units, selected, disbands_needed) ==
    Take(SelectSeq(power_units, LAMBDA u : \A i \in 1..Len(selected) : selected[i] # u),
         disbands_needed - Len(selected))

\* new_state.remove_unit(unit.get_id()) for every selected unit.
RemoveUnits(us, selected) ==
    SelectSeq(us, LAMBDA u : \A i \in 1..Len(selected) : selected[i].id # u.id)

DisbandSelected(acc, selected, rest) ==
    [units |-> RemoveUnits(acc.units, selected \o rest),
     next_id |-> acc.next_id,
     raised |-> acc.raised,
     built |-> acc.built]

DisbandFrom(acc, power, selected, disbands_needed) ==
    DisbandSelected(acc, selected,
        ArbitraryDisbands(GetUnitsByPower(acc.units, power), selected, disbands_needed))

\* The adjustment of one power: sc_count and unit_count are taken from the state
\* the earlier powers have left.
AdjustPower(acc, power, sc_count, unit_count, sc, builds, ids) ==
    IF unit_count < sc_count
    THEN ApplyBuilds(builds, 1, 0, sc_count - unit_count, sc, acc)
    ELSE IF unit_count > sc_count
         THEN DisbandFrom(acc, power,
                          OrderedDisbands(acc.units, ids, unit_count - sc_count),
                          unit_count - sc_count)
         ELSE acc

\* "for power in Power": the powers are adjusted one after the other.
RECURSIVE AdjustPowers(_, _, _, _, _)
AdjustPowers(i, sc, build_orders, disband_orders, acc) ==
    IF i > Len(PowerOrder) \/ acc.raised THEN acc
    ELSE AdjustPowers(i + 1, sc, build_orders, disband_orders,
             AdjustPower(acc, PowerOrder[i], GetScCount(sc, PowerOrder[i]),
                         GetUnitCount(acc.units, PowerOrder[i]), sc,
                         build_orders[PowerOrder[i]], disband_orders[PowerOrder[i]]))

\* The state resolve returns, with the state and the orders it was given.
WinterResult(us, sc, build_orders, disband_orders, acc) ==
    [kind |-> "winter",
     game_state |-> [units |-> us, dislodged_units |-> << >>, supply_centers |-> sc],
     build_orders |-> build_orders,
     disband_orders |-> disband_orders,
     built |-> acc.built,
     raised |-> acc.raised,
     units |-> acc.units,
     supply_centers |-> sc,
     dislodged_units |-> << >>,
     next_id |-> acc.next_id]

\* resolve_winter_phase(game_state, build_orders, disband_orders); a power without
\* an entry in a table has the empty list.
ResolveWinterPhase(us, sc, build_orders, disband_orders, next) ==
    WinterResult(us, sc, build_orders, disband_orders,
        AdjustPowers(1, sc, build_orders, disband_orders,
                     [units |-> us, next_id |-> next + Len(us), raised |-> FALSE,
                      built |-> << >>]))

(***************************************************************************)
(* The inputs of a game: boards, ownership tables, retreat orders.         *)
(***************************************************************************)
\* Galicia and Silesia: two dislodgements at once beside a standoff in Bohemia.
BoardGalicia ==
    [units |-> <<Unit(1, "Germany", "Army", "Sil", None),
                 Unit(2, "Austria-Hungary", "Army", "Gal", None),
                 Unit(3, "Russia", "Army", "War", None),
                 Unit(4, "Russia", "Army", "Pru", None),
                 Unit(5, "Russia", "Army", "Ukr", None),
                 Unit(6, "Russia", "Army", "Rum", None),
                 Unit(7, "Germany", "Army", "Mun", None),
                 Unit(8, "Austria-Hungary", "Army", "Vie", None)>>,
     menus |-> <<{NoOrder},
                 {NoOrder},
                 {NoOrder, Mv("Sil")},
                 {NoOrder, SupMove("War", "Sil")},
                 {NoOrder, Mv("Gal")},
                 {NoOrder, SupMove("Ukr", "Gal")},
                 {NoOrder, Mv("Boh")},
                 {NoOrder, Mv("Boh")}>>]

\* Prussia held by a Russian unit of either kind, attacked from Berlin; a Russian
\* army stands in St Petersburg.
BoardPrussia(unit_type) ==
    [units |-> <<Unit(1, "Germany", "Army", "Ber", None),
                 Unit(2, "Germany", "Army", "Sil", None),
                 Unit(3, "Russia", unit_type, "Pru", None),
                 Unit(4, "Russia", "Army", "War", None),
                 Unit(5, "Russia", "Army", "StP", None)>>,
     menus |-> <<{NoOrder, Mv("Pru")},
                 {NoOrder, SupMove("Ber", "Pru")},
                 {NoOrder, Mv("Lvn")},
                 {NoOrder, Mv("Gal"), Mv("Lvn")},
                 {NoOrder}>>]

\* Belgium attacked by two convoyed armies while its army tries to leave for Holland.
BoardHolland ==
    [units |-> <<Unit(1, "England", "Army", "Lon", None),
                 Unit(2, "England", "Fleet", "ENG", None),
                 Unit(3, "France", "Army", "Pic", None),
                 Unit(4, "France", "Fleet", "NTH", None),
                 Unit(5, "Germany", "Army", "Bel", None),
                 Unit(6, "Germany", "Army", "Hol", None)>>,
     menus |-> <<{NoOrder, MvConvoy("Bel")},
                 {NoOrder, Convoy("Pic", "Bel")},
                 {NoOrder, MvConvoy("Bel")},
                 {NoOrder, Convoy("Lon", "Bel")},
                 {NoOrder, Mv("Hol")},
                 {NoOrder}>>]

\* The Gulf of Bothnia: a fleet dislodged beside St Petersburg, and a fleet in the
\* Barents Sea that may sail there.
BoardBothnia ==
    [units |-> <<Unit(1, "Russia", "Fleet", "BOT", None),
                 Unit(2, "Germany", "Fleet", "BAL", None),
                 Unit(3, "Germany", "Fleet", "Swe", None),
                 Unit(4, "England", "Fleet", "BAR", None)>>,
     menus |-> <<{NoOrder},
                 {NoOrder, Mv("BOT")},
                 {NoOrder, SupMove("BAL", "BOT")},
                 {NoOrder, Mv("StP"), MvCoast("StP", "nc")}>>]

GameBoards ==
    {BoardGalicia, BoardPrussia("Army"), BoardPrussia("Fleet"), BoardHolland, BoardBothnia}

\* A province that borders none of the provinces a unit of GameBoards is dislodged from.
FarProvince == "Kie"

\* The orders one dislodged unit may be given: none, a disband, or a retreat to a
\* province next to the one it left, with or without a coast of it, or to FarProvince.
RetreatMenu(d) ==
    {NoOrder, DisbandOrder(d.unit)} \cup
    {RetreatOrder(d.unit, p, None) :
        p \in GetAdjacentProvinces(d.dislodged_from, None) \cup {FarProvince}} \cup
    UNION {{RetreatOrder(d.unit, p, coast) : coast \in ProvinceCoasts(p)} :
              p \in GetAdjacentProvinces(d.dislodged_from, None)}

\* The retreat order tables for a list of dislodged units, keyed by unit id.
RetreatOrderTables(ds) ==
    LET ids == {ds[k].unit.id : k \in 1..Len(ds)}
        first(id) == ds[Min({k \in 1..Len(ds) : ds[k].unit.id = id})]
    IN  {ro \in [ids -> UNION {RetreatMenu(ds[k]) : k \in 1..Len(ds)}] :
            \A id \in ids : ro[id] \in RetreatMenu(first(id))}

\* A table of the winter phase, keyed by power: the powers not named have no entry.
WinterTable(entries) ==
    [p \in Powers |->
        IF \E e \in entries : e[1] = p THEN (CHOOSE e \in entries : e[1] = p)[2] ELSE << >>]

Army(location) == BuildOrder(HomeCenterOf(location), "Army", location, None)
Fleet(location) == BuildOrder(HomeCenterOf(location), "Fleet", location, None)

\* The build tables of a winter: none; one build for each power; more builds than a
\* power may make; fleets inland; a fleet for St Petersburg without a coast and
\* builds away from home; a fleet for the south coast of St Petersburg; an army with
\* a coast.
BuildTables ==
    {WinterTable({}),
     WinterTable({<<"Germany", <<Army("Ber")>>>>, <<"Russia", <<Army("Mos")>>>>,
                  <<"Austria-Hungary", <<Army("Bud")>>>>, <<"England", <<Fleet("Lon")>>>>,
                  <<"France", <<Army("Par")>>>>}),
     WinterTable({<<"Germany", <<Army("Ber"), Army("Kie"), Army("Mun")>>>>,
                  <<"Russia", <<Army("Mos"), Army("Sev"), Army("War")>>>>,
                  <<"Austria-Hungary", <<Army("Bud"), Army("Tri"), Army("Vie")>>>>,
                  <<"England", <<Fleet("Edi"), Fleet("Lvp")>>>>,
                  <<"France", <<Army("Par"), Fleet("Bre"), Army("Mar")>>>>}),
     WinterTable({<<"Germany", <<Fleet("Mun")>>>>, <<"Russia", <<Fleet("Mos")>>>>,
                  <<"Austria-Hungary", <<Fleet("Vie")>>>>, <<"France", <<Fleet("Par")>>>>}),
     WinterTable({<<"Russia", <<Fleet("StP")>>>>,
                  <<"Germany", <<BuildOrder("Germany", "Army", "War", None)>>>>,
                  <<"England", <<BuildOrder("England", "Army", "Bel", None)>>>>}),
     WinterTable({<<"Russia", <<BuildOrder("Russia", "Fleet", "StP", "sc")>>>>}),
     WinterTable({<<"Germany", <<BuildOrder("Germany", "Army", "Kie", "nc")>>>>})}

\* The id of the first unit on the board that satisfies Test, or 0, an id no unit has.
FirstUnitId(us, Test(_)) ==
    IF \E k \in 1..Len(us) : Test(us[k])
    THEN us[Min({k \in 1..Len(us) : Test(us[k])})].id
    ELSE 0

\* The disband tables of a winter: none; for each power its first unit; its first
\* unit twice; a unit of another power; an id that is not on the board.
DisbandTables(us) ==
    {WinterTable({}),
     [p \in Powers |-> <<FirstUnitId(us, LAMBDA u : u.power = p)>>],
     [p \in Powers |-> <<FirstUnitId(us, LAMBDA u : u.power = p),
                         FirstUnitId(us, LAMBDA u : u.power = p)>>],
     [p \in Powers |-> <<FirstUnitId(us, LAMBDA u : u.power # p)>>],
     [p \in Powers |-> <<0>>]}

\* The order tables of a winter: a build table, or a disband table beside builds.
\* Orders are given in the first year only.
WinterOrderTables(us, y) ==
    IF y = 1901
    THEN {<<b, WinterTable({})>> : b \in BuildTables} \cup
         {<<WinterTable({<<"Germany", <<Army("Ber"), Army("Kie"), Army("Mun")>>>>,
                         <<"Austria-Hungary", <<Army("Bud"), Army("Tri"), Army("Vie")>>>>}), d>> :
             d \in DisbandTables(us)}
    ELSE {<<WinterTable({}), WinterTable({})>>}

\* Ownership late in a game: Russia has lost Sevastopol, Moscow and St Petersburg,
\* Germany has lost Kiel.
LateSupplyCenters ==
    [StartingSupplyCenters EXCEPT !["Sev"] = "Turkey", !["Mos"] = "Turkey",
                                  !["StP"] = "England", !["Kie"] = "France"]

GameSupplyCenters == {StartingSupplyCenters, LateSupplyCenters}

\* Gamemaster.max_years: run_game stops when the year reaches 1901 + max_years.
MaxYears == 1

(***************************************************************************)
(* gamemaster/gamemaster.py: the phases of a game, one resolver call and   *)
(* one advance at a time.                                                  *)
(***************************************************************************)
GameInit ==
    \E board \in GameBoards :
        /\ units = board.units
        /\ orders \in OrderTables(board)
        /\ supply_centers \in GameSupplyCenters
        /\ year = 1901
        /\ season \in {"Spring", "Fall"}
        /\ previous_season = None
        /\ dislodged_units = << >>
        /\ next_id = Len(board.units) + 1
        /\ resolution = NoResolution
        /\ pc = "orders"

\* run_retreat_phase: RetreatResolver(self.state, order_dict).resolve(), with
\* previous_season restored on the state it returns.
ResolveRetreat ==
    /\ pc = "orders"
    /\ season = "Retreat"
    /\ \E ro \in RetreatOrderTables(dislodged_units) :
           KeepResult(ResolveRetreatPhase(units, dislodged_units, supply_centers, ro, next_id))
    /\ pc' = "resolved"
    /\ UNCHANGED <<year, season, previous_season, orders>>

\* run_winter_phase: WinterResolver(self.state, build_dict, disband_dict).resolve().
ResolveWinter ==
    /\ pc = "orders"
    /\ season = "Winter"
    /\ \E w \in WinterOrderTables(units, year) :
           KeepResult(ResolveWinterPhase(units, supply_centers, w[1], w[2], next_id))
    /\ pc' = "resolved"
    /\ UNCHANGED <<year, season, previous_season, orders>>

\* The end of a phase handler: a is the state PhaseManager.advance_phase leaves.
\* A game loop that leaves previous_season as advance_phase set it.
GamemasterAdvanceWithoutPrevious(a, has_dislodged) ==
    /\ season' = a.season
    /\ year' = a.year
    /\ dislodged_units' = a.dislodged_units
    /\ previous_season' = a.previous_season
    /\ supply_centers' =
           IF resolution.kind = "movement" /\ season = "Fall" /\ a.season = "Fall"
           THEN UpdateScOwnership(supply_centers, units)
           ELSE supply_centers
    /\ pc' = IF \/ a.year >= 1901 + MaxYears
                \/ resolution.kind # "retreat" /\ CheckVictory(supply_centers) # None
             THEN "over"
             ELSE "orders"

\* _run_movement_phase sets previous_season on entering a retreat; run_fall_phase
\* updates the ownership when the season is still Fall; run_game stops on a winner
\* or when the year reaches 1901 + max_years.
GamemasterAdvance(a, has_dislodged) ==
    /\ season' = a.season
    /\ year' = a.year
    /\ dislodged_units' = a.dislodged_units
    /\ previous_season' =
           IF resolution.kind = "movement" /\ a.season = "Retreat" /\ has_dislodged
           THEN season
           ELSE a.previous_season
    /\ supply_centers' =
           IF resolution.kind = "movement" /\ season = "Fall" /\ a.season = "Fall"
           THEN UpdateScOwnership(supply_centers, units)
           ELSE supply_centers
    /\ pc' = IF \/ a.year >= 1901 + MaxYears
                \/ resolution.kind # "retreat" /\ CheckVictory(supply_centers) # None
             THEN "over"
             ELSE "orders"

\* The units of the next movement phase all hold.
AdvancePhase ==
    /\ pc = "resolved"
    /\ ~resolution.raised
    /\ GamemasterAdvance(
           PhaseManagerAdvancePhase(season, year, previous_season, dislodged_units,
               resolution.kind = "movement" /\ Len(dislodged_units) > 0),
           resolution.kind = "movement" /\ Len(dislodged_units) > 0)
    /\ orders' = << >>
    /\ UNCHANGED <<units, next_id, resolution>>

GameNext == ResolveMovement \/ ResolveRetreat \/ ResolveWinter \/ AdvancePhase

GameSpec == GameInit /\ [][GameNext]_vars

(***************************************************************************)
(* check_victory on ownership tables near the threshold.                   *)
(***************************************************************************)
\* The Black Sea coast: Rumania vacant between a Russian and a Turkish army.
BoardRumania ==
    [units |-> <<Unit(1, "Russia", "Army", "Sev", None),
                 Unit(2, "Turkey", "Army", "Bul", None)>>,
     menus |-> <<{NoOrder, Mv("Rum")}, {NoOrder, Mv("Rum")}>>]

\* The supply centers in a fixed order, the three of BoardRumania last.
RECURSIVE SeqOfSet(_)
SeqOfSet(S) ==
    IF S = {} THEN << >>
    ELSE LET x == CHOOSE y \in S : TRUE IN <<x>> \o SeqOfSet(S \ {x})

CenterOrder == SeqOfSet(SupplyCenterProvinces \ {"Rum", "Sev", "Bul"}) \o <<"Rum", "Sev", "Bul">>

\* p owns the first n centers of CenterOrder and q the m after them.
OwnershipTable(p, n, q, m) ==
    [c \in {CenterOrder[i] : i \in 1..(n + m)} |->
        IF \E i \in 1..n : CenterOrder[i] = c THEN p ELSE q]

\* One power with 16 to 19 centers; another with none of the others, or with all of
\* them but the three of BoardRumania.
VictorySupplyCenters ==
    {OwnershipTable(p, n, q, m) :
        p \in Powers, q \in Powers, n \in 16..19, m \in {0, 12, 13, 14, 15}}

VictoryInit ==
    /\ units = BoardRumania.units
    /\ orders \in OrderTables(BoardRumania)
    /\ supply_centers \in VictorySupplyCenters
    /\ year = 1901
    /\ season \in {"Spring", "Fall"}
    /\ previous_season = None
    /\ dislodged_units = << >>
    /\ next_id = Len(BoardRumania.units) + 1
    /\ resolution = NoResolution
    /\ pc = "orders"

\* check_victory(state), before or after the movement phase; the result is kept with
\* the resolution that came before it.
CheckVictoryCall ==
    /\ pc \in {"orders", "resolved"}
    /\ resolution' = [kind |-> "victory", winner |-> CheckVictory(supply_centers),
                      previous |-> resolution]
    /\ pc' = "checked"
    /\ UNCHANGED <<units, supply_centers, year, season, previous_season, dislodged_units,
                   orders, next_id>>

VictoryNext == ResolveMovement \/ CheckVictoryCall

VictorySpec == VictoryInit /\ [][VictoryNext]_vars

(***************************************************************************)
(* PhaseManager.advance_phase under every sequence of flags.               *)
(***************************************************************************)
\* advance_phase is called up to the Winter of year 1901 + MaxPhaseYears.
MaxPhaseYears == 6

\* The dislodged unit of test_phase_manager.py.
DislodgedInRumania ==
    DislodgedUnit(Unit(1, "Russia", "Fleet", "Rum", None), "Rum", "Bud", {})

\* GameState(game_map, year, season), with or without a dislodged unit.
PhaseInit ==
    /\ units = << >>
    /\ orders = << >>
    /\ supply_centers = StartingSupplyCenters
    /\ year = 1901
    /\ season \in {"Spring", "Fall", "Retreat", "Winter"}
    /\ previous_season = None
    /\ dislodged_units \in {<< >>, <<DislodgedInRumania>>}
    /\ next_id = 2
    /\ resolution = NoResolution
    /\ pc = "orders"

\* PhaseManager.advance_phase(state, has_dislodged_units); the state it was called on
\* and the flag are kept beside the result.
AdvancePhaseWithFlag ==
    \E has_dislodged_units \in BOOLEAN :
        LET a == PhaseManagerAdvancePhase(season, year, previous_season, dislodged_units,
                                          has_dislodged_units)
        IN  /\ a.year <= 1901 + MaxPhaseYears
            /\ season' = a.season
            /\ year' = a.year
            /\ dislodged_units' = a.dislodged_units
            /\ previous_season' = a.previous_season
            /\ resolution' = [kind |-> "advance",
                              state |-> [season |-> season, year |-> year,
                                         previous_season |-> previous_season,
                                         dislodged_units |-> dislodged_units],
                              has_dislodged_units |-> has_dislodged_units]
            /\ pc' = "advanced"
            /\ UNCHANGED <<units, supply_centers, orders, next_id>>

\* The caller's assignment after advance_phase has entered Retreat:
\* state.previous_season = original_state.season.
SetPreviousSeason ==
    /\ pc = "advanced"
    /\ season = "Retreat"
    /\ resolution.has_dislodged_units
    /\ resolution.state.season \in {"Spring", "Fall"}
    /\ previous_season' = resolution.state.season
    /\ pc' = "orders"
    /\ UNCHANGED <<units, supply_centers, year, season, dislodged_units, orders, next_id,
                   resolution>>

PhaseNext == AdvancePhaseWithFlag \/ SetPreviousSeason

PhaseSpec == PhaseInit /\ [][PhaseNext]_vars

(***************************************************************************)
(* core/game_state.py: to_dict and from_dict.                              *)
(***************************************************************************)
\* Unit.to_dict(): the id is not written.
UnitToDict(u) ==
    [power |-> u.power, unit_type |-> u.unit_type, location |-> u.location,
     coast |-> IF u.coast # None THEN u.coast ELSE None]

\* Unit.from_dict(data): a new Unit, with the next id.
UnitFromDict(data, id) ==
    Unit(id, data.power, data.unit_type, data.location,
         IF data.coast # None THEN data.coast ELSE None)

\* Unit.__post_init__ raises ValueError for an army with a coast.
UnitRaises(data) == data.unit_type = "Army" /\ data.coast # None

\* DislodgedUnit.to_dict(): the contested provinces become a list.
DislodgedToDict(d) ==
    [unit |-> UnitToDict(d.unit), dislodged_from |-> d.dislodged_from,
     dislodger_origin |-> d.dislodger_origin,
     contested_provinces |-> SeqOfSet(d.contested_provinces)]

\* DislodgedUnit.from_dict(data): the list becomes a set again.
DislodgedFromDict(data, id) ==
    DislodgedUnit(UnitFromDict(data.unit, id), data.dislodged_from, data.dislodger_origin,
                  {data.contested_provinces[i] : i \in 1..Len(data.contested_provinces)})

\* GameState.to_dict().
GameStateToDict(y, s, prev, us, sc, ds) ==
    [year |-> y, season |-> s,
     previous_season |-> IF prev # None THEN prev ELSE None,
     units |-> [i \in 1..Len(us) |-> UnitToDict(us[i])],
     supply_centers |-> sc,
     dislodged_units |-> [i \in 1..Len(ds) |-> DislodgedToDict(ds[i])]]

\* A load that does not read previous_season.
GameStateFromDictWithoutPrevious(data, next) ==
    [year |-> data.year, season |-> data.season,
     previous_season |-> None,
     units |-> [i \in 1..Len(data.units) |-> UnitFromDict(data.units[i], next + i - 1)],
     supply_centers |-> data.supply_centers,
     dislodged_units |->
         [i \in 1..Len(data.dislodged_units) |->
             DislodgedFromDict(data.dislodged_units[i], next + Len(data.units) + i - 1)],
     raised |-> \/ \E i \in 1..Len(data.units) : UnitRaises(data.units[i])
                \/ \E i \in 1..Len(data.dislodged_units) :
                       UnitRaises(data.dislodged_units[i].unit),
     next_id |-> next + Len(data.units) + Len(data.dislodged_units)]

\* GameState.from_dict(data, game_map): the units, then the dislodged units, are
\* constructed anew and take the next ids.
GameStateFromDict(data, next) ==
    [year |-> data.year, season |-> data.season,
     previous_season |-> IF data.previous_season # None THEN data.previous_season ELSE None,
     units |-> [i \in 1..Len(data.units) |-> UnitFromDict(data.units[i], next + i - 1)],
     supply_centers |-> data.supply_centers,
     dislodged_units |->
         [i \in 1..Len(data.dislodged_units) |->
             DislodgedFromDict(data.dislodged_units[i], next + Len(data.units) + i - 1)],
     raised |-> \/ \E i \in 1..Len(data.units) : UnitRaises(data.units[i])
                \/ \E i \in 1..Len(data.dislodged_units) :
                       UnitRaises(data.dislodged_units[i].unit),
     next_id |-> next + Len(data.units) + Len(data.dislodged_units)]

\* The state is replaced by the one loaded; the state that was saved and the
\* dictionary stay in the record of the load.
KeepLoaded(data, loaded) ==
    /\ resolution' = [kind |-> "load", data |-> data, raised |-> loaded.raised,
                      state |-> [year |-> year, season |-> season,
                                 previous_season |-> previous_season, units |-> units,
                                 supply_centers |-> supply_centers,
                                 dislodged_units |-> dislodged_units]]
    /\ year' = IF loaded.raised THEN year ELSE loaded.year
    /\ season' = IF loaded.raised THEN season ELSE loaded.season
    /\ previous_season' = IF loaded.raised THEN previous_season ELSE loaded.previous_season
    /\ units' = IF loaded.raised THEN units ELSE loaded.units
    /\ supply_centers' = IF loaded.raised THEN supply_centers ELSE loaded.supply_centers
    /\ dislodged_units' = IF loaded.raised THEN dislodged_units ELSE loaded.dislodged_units
    /\ next_id' = loaded.next_id

LoadFrom(data) == KeepLoaded(data, GameStateFromDict(data, next_id))

\* state.to_json(path) followed by GameState.from_json(path, game_map), between two
\* steps of the game loop.
SaveAndLoad ==
    /\ pc \in {"orders", "resolved"}
    /\ LoadFrom(GameStateToDict(year, season, previous_season, units, supply_centers,
                                dislodged_units))
    /\ pc' = "loaded"
    /\ UNCHANGED orders

SaveNext == GameNext \/ SaveAndLoad

SaveSpec == GameInit /\ [][SaveNext]_vars

(***************************************************************************)
(* resolve_movement_phase on malformed input.                              *)
(***************************************************************************)
\* Berlin, Silesia, Warsaw and Prussia, one unit each.
BoardBerlin ==
    [units |-> <<Unit(1, "Germany", "Army", "Ber", None),
                 Unit(2, "Germany", "Army", "Sil", None),
                 Unit(3, "Russia", "Army", "War", None),
                 Unit(4, "Russia", "Fleet", "Pru", None)>>,
     menus |-> <<{NoOrder, Mv("Pru"), SupHold("Sil")},
                 {NoOrder, Mv("War"), SupMove("Ber", "Pru")},
                 {NoOrder, Mv("Sil"), SupHold("Pru")},
                 {NoOrder, Mv("Ber"), SupMove("War", "Sil")}>>]

\* A unit that is not on BoardBerlin, and the orders given to it.
UnitNotOnBoard == Unit(5, "Russia", "Army", "Boh", None)

OrdersOfUnitNotOnBoard ==
    {[o EXCEPT !.unit = UnitNotOnBoard] :
        o \in {Hold, Mv("Sil"), Mv("Mun"), SupMove("War", "Sil"), SupHold("Sil")}}

\* The order tables of BoardBerlin with one order of the unit that is not on it.
OrderTablesWithUnitNotOnBoard ==
    {<<g>> \o t : g \in OrdersOfUnitNotOnBoard, t \in OrderTables(BoardBerlin)} \cup
    {t \o <<g>> : g \in OrdersOfUnitNotOnBoard, t \in OrderTables(BoardBerlin)}

\* Two armies in Berlin.
BoardTwoInBerlin ==
    [units |-> <<Unit(1, "Germany", "Army", "Ber", None),
                 Unit(2, "Russia", "Army", "Ber", None),
                 Unit(3, "Germany", "Army", "Sil", None),
                 Unit(4, "Russia", "Fleet", "Pru", None)>>,
     menus |-> <<{NoOrder, Mv("Pru"), Mv("Kie")},
                 {NoOrder, Mv("Pru"), Mv("Sil"), SupHold("Sil")},
                 {NoOrder, Mv("Ber"), SupMove("Ber", "Pru"), SupHold("Ber")},
                 {NoOrder, Mv("Ber"), SupHold("Ber")}>>]

\* An ownership table with an entry for Silesia, which is no supply center.
OwnershipWithSilesia ==
    [p \in DOMAIN StartingSupplyCenters \cup {"Sil"} |->
        IF p = "Sil" THEN "Germany" ELSE StartingSupplyCenters[p]]

MalformedInputs ==
    {<<BoardBerlin.units, t, StartingSupplyCenters, Len(BoardBerlin.units) + 2>> :
        t \in OrderTablesWithUnitNotOnBoard} \cup
    {<<BoardTwoInBerlin.units, t, StartingSupplyCenters, Len(BoardTwoInBerlin.units) + 1>> :
        t \in OrderTables(BoardTwoInBerlin)} \cup
    {<<BoardBerlin.units, t, OwnershipWithSilesia, Len(BoardBerlin.units) + 1>> :
        t \in OrderTables(BoardBerlin)}

MalformedInit ==
    \E input \in MalformedInputs :
        /\ units = input[1]
        /\ orders = input[2]
        /\ supply_centers = input[3]
        /\ year = 1901
        /\ season \in {"Spring", "Fall"}
        /\ previous_season = None
        /\ dislodged_units = << >>
        /\ next_id = input[4]
        /\ resolution = NoResolution
        /\ pc = "orders"

MalformedSpec == MalformedInit /\ [][Next]_vars

(***************************************************************************)
(* The movement phase on moves that wait for each other.                   *)
(***************************************************************************)
\* Berlin, Silesia and Munich, each adjacent to the other two, with the units around
\* them: a cycle of three moves, its supports, and a move into the cycle.
BoardCycle ==
    [units |-> <<Unit(1, "Germany", "Army", "Ber", None),
                 Unit(2, "Germany", "Army", "Sil", None),
                 Unit(3, "Germany", "Army", "Mun", None),
                 Unit(4, "Russia", "Army", "War", None),
                 Unit(5, "Germany", "Army", "Kie", None),
                 Unit(6, "Austria-Hungary", "Army", "Boh", None)>>,
     menus |-> <<{NoOrder, Mv("Sil")},
                 {NoOrder, Mv("Mun"), Mv("Ber")},
                 {NoOrder, Mv("Ber")},
                 {NoOrder, Mv("Sil"), SupMove("Ber", "Sil")},
                 {NoOrder, SupMove("Mun", "Ber")},
                 {NoOrder, SupMove("Sil", "Mun"), Mv("Mun")}>>]

\* Berlin, Prussia and Silesia, each adjacent to the other two, and an army in Kiel
\* that may come to Prussia over the Baltic Sea or walk to Berlin.
BoardBaltic ==
    [units |-> <<Unit(1, "Germany", "Army", "Ber", None),
                 Unit(2, "Germany", "Army", "Pru", None),
                 Unit(3, "Germany", "Army", "Sil", None),
                 Unit(4, "Russia", "Army", "Kie", None),
                 Unit(5, "Russia", "Fleet", "BAL", None)>>,
     menus |-> <<{NoOrder, Mv("Pru")},
                 {NoOrder, Mv("Sil"), Mv("Ber")},
                 {NoOrder, Mv("Ber")},
                 {NoOrder, MvConvoy("Pru"), Mv("Ber")},
                 {NoOrder, Convoy("Kie", "Pru")}>>]

CycleBoards == {BoardCycle, BoardBaltic}

CycleInit ==
    \E board \in CycleBoards :
    /\ units = board.units
    /\ orders \in OrderTables(board)
    /\ supply_centers = StartingSupplyCenters
    /\ year = 1901
    /\ season \in {"Spring", "Fall"}
    /\ previous_season = None
    /\ dislodged_units = << >>
    /\ next_id = Len(board.units) + 1
    /\ resolution = NoResolution
    /\ pc = "orders"

\* The step of the movement phase as the caller sees it: the orders are in, and the
\* call to resolve_movement_phase has returned.
Returns == pc = "orders" /\ pc' = "resolved"

\* The caller calls resolve_movement_phase once the orders are in.
ReturnSpec == CycleInit /\ [][Next]_vars /\ WF_pc(Returns)
(***************************************************************************)
(* core/game.py: Game, the programmatic interface to a game; and           *)
(* GameState.advance_phase, the phase change of the state itself.          *)
(***************************************************************************)
\* Berlin and Silesia against Prussia: one dislodgement a movement phase can make.
BoardLivonia ==
    <<Unit(1, "Germany", "Army", "Ber", None),
      Unit(2, "Germany", "Army", "Sil", None),
      Unit(3, "Russia", "Army", "Pru", None),
      Unit(4, "Russia", "Army", "War", None)>>

\* A key of Game.pending_orders: the id of a unit or the name of a power.
UnitKey(unit_id) == <<"unit", unit_id>>
PowerKey(power) == <<"power", power>>

\* An entry of Game.pending_orders; a dict keeps its keys in insertion order.
PendingEntry(key, value) == [key |-> key, value |-> value]

HasPending(pending, key) ==
    \E k \in 1..Len(pending) : pending[k].key[1] = key[1] /\ pending[k].key[2] = key[2]

\* pending_orders.get(key, default).
GetPending(pending, key, default) ==
    IF HasPending(pending, key)
    THEN pending[CHOOSE k \in 1..Len(pending) :
                     pending[k].key[1] = key[1] /\ pending[k].key[2] = key[2]].value
    ELSE default

\* pending_orders[key] = value: a key that is there keeps its place.
SetPending(pending, key, value) ==
    IF HasPending(pending, key)
    THEN [k \in 1..Len(pending) |->
             IF pending[k].key[1] = key[1] /\ pending[k].key[2] = key[2]
             THEN PendingEntry(key, value)
             ELSE pending[k]]
    ELSE Append(pending, PendingEntry(key, value))

\* The pending orders as the resolvers read them: the orders in insertion order (an
\* entry under the name of a power is a list, which is no order of any kind and has
\* no unit), the table keyed by unit id, the build lists keyed by power.
UnitEntries(pending) == SelectSeq(pending, LAMBDA e : e.key[1] = "unit")
PendingOrders(pending) ==
    [k \in 1..Len(UnitEntries(pending)) |-> UnitEntries(pending)[k].value]
PendingRetreats(pending) ==
    [id \in {pending[k].key[2] : k \in {n \in 1..Len(pending) : pending[n].key[1] = "unit"}}
        |-> GetPending(pending, UnitKey(id), NoOrder)]
PendingBuilds(pending) == [p \in Powers |-> GetPending(pending, PowerKey(p), << >>)]

\* The calls a player makes: an order for a unit of the board, by where it stands;
\* a retreat or a disband for a dislodged unit; an order under an id no unit has.
OrdersAt(u) ==
    CASE u.location = "Ber" -> {[Mv("Pru") EXCEPT !.unit = u]}
      [] u.location = "Sil" -> {[SupMove("Ber", "Pru") EXCEPT !.unit = u]}
      [] OTHER -> {}

SubmitOrderCalls(us, ds) ==
    UNION {{<<us[k].id, o>> : o \in OrdersAt(us[k])} : k \in 1..Len(us)} \cup
    UNION {{<<ds[k].unit.id, o>> : o \in RetreatMenu(ds[k]) \ {NoOrder}} : k \in 1..Len(ds)} \cup
    {<<0, HoldOrder(NoUnit)>>}

SubmitBuildOrderCalls == {<<"Germany", Army("Ber")>>, <<"Russia", Army("Mos")>>}

\* The calls of one phase: MaxSubmissions different ones at most, a build order
\* submitted once.
MaxSubmissions == 3

\* The phases a game is followed for.
MaxPhases == 4

\* A call of submit_order or submit_build_order, with what it returned.
Submission(method, s, key, order, returned) ==
    [method |-> method, season |-> s, key |-> key, order |-> order, returned |-> returned]

\* A phase the game is in, with the method that entered it.
Phase(y, s, by) == [year |-> y, season |-> s, by |-> by]

\* What the game remembers beside its state: the phases so far, the calls of
\* submit_order and of submit_build_order in the current phase, the retreats asked
\* for in the phase just resolved, and the units and dislodged units of that phase.
GameRecord(phases, submitted, builds, retreats, us, ds) ==
    [kind |-> "game", phases |-> phases, submitted |-> submitted, builds |-> builds,
     retreats |-> retreats, before |-> [units |-> us, dislodged_units |-> ds]]

\* Game(game_state): a game in a movement phase of some year, nothing pending.
ApiInit ==
    /\ units = BoardLivonia
    /\ supply_centers = StartingSupplyCenters
    /\ year \in {1901, 1902}
    /\ season \in {"Spring", "Fall"}
    /\ previous_season = None
    /\ dislodged_units = << >>
    /\ orders = << >>
    /\ next_id = Len(BoardLivonia) + 1
    /\ resolution = GameRecord(<<Phase(year, season, "Game")>>, {}, {}, {}, << >>, << >>)
    /\ pc = "orders"

\* Game.submit_order(unit_id, order).
SubmitOrderReturns(unit_id, us, s) ==
    /\ \E k \in 1..Len(us) : us[k].id = unit_id
    /\ s \in {"Spring", "Fall", "Retreat"}

SubmitOrder ==
    /\ pc = "orders"
    /\ \E call \in SubmitOrderCalls(units, dislodged_units) :
           LET returned == SubmitOrderReturns(call[1], units, season)
               kept == resolution.submitted \cup
                           {Submission("submit_order", season, call[1], call[2], returned)}
           IN  /\ Cardinality(kept) + Cardinality(resolution.builds) <= MaxSubmissions
               /\ orders' = IF returned
                            THEN SetPending(orders, UnitKey(call[1]), call[2])
                            ELSE orders
               /\ resolution' = [resolution EXCEPT !.submitted = kept]
    /\ UNCHANGED <<units, supply_centers, year, season, previous_season, dislodged_units,
                   next_id, pc>>

\* Game.submit_build_order(power, build_order).
SubmitBuildOrderReturns(s) == s = "Winter"

SubmitBuildOrder ==
    /\ pc = "orders"
    /\ \E call \in SubmitBuildOrderCalls :
           LET returned == SubmitBuildOrderReturns(season)
               kept == resolution.builds \cup
                           {Submission("submit_build_order", season, call[1], call[2],
                                       returned)}
           IN  /\ kept # resolution.builds
               /\ Cardinality(kept) + Cardinality(resolution.submitted) <= MaxSubmissions
               /\ orders' =
                      IF returned
                      THEN SetPending(orders, PowerKey(call[1]),
                               Append(GetPending(orders, PowerKey(call[1]), << >>),
                                      call[2]))
                      ELSE orders
               /\ resolution' = [resolution EXCEPT !.builds = kept]
    /\ UNCHANGED <<units, supply_centers, year, season, previous_season, dislodged_units,
                   next_id, pc>>

\* The resolver Game.advance_phase calls in season s on the pending orders.
GameResolve(s, us, ds, sc, pending, next) ==
    CASE s \in {"Spring", "Fall"} ->
             ResolveMovementPhase(us, PendingOrders(pending), sc, s = "Fall", next)
      [] s = "Retreat" -> ResolveRetreatPhase(us, ds, sc, PendingRetreats(pending), next)
      [] s = "Winter" ->
             ResolveWinterPhase(us, sc, PendingBuilds(pending), WinterTable({}), next)

\* The season Game.advance_phase sets after resolving season s of year y.
GameNextSeason(s, y, has_dislodged) ==
    CASE s = "Spring" -> IF has_dislodged THEN "Retreat" ELSE "Fall"
      [] s = "Fall" -> IF has_dislodged THEN "Retreat" ELSE "Winter"
      [] s = "Retreat" -> IF y = 1901 THEN "Fall" ELSE "Winter"
      [] s = "Winter" -> "Spring"

\* Game.advance_phase with the resolution r: the state becomes the resolved one, the
\* season changes, the pending orders are cleared.  An exception of the resolver
\* leaves the game as it was.
GameAdvanceWith(r, next_season, next_year) ==
    IF r.raised
    THEN /\ next_id' = r.next_id
         /\ UNCHANGED <<units, supply_centers, year, season, previous_season, dislodged_units,
                        orders, resolution, pc>>
    ELSE /\ units' = r.units
         /\ supply_centers' = r.supply_centers
         /\ dislodged_units' = r.dislodged_units
         /\ next_id' = r.next_id
         /\ season' = next_season
         /\ year' = next_year
         /\ orders' = << >>
         /\ resolution' =
                GameRecord(Append(resolution.phases, Phase(next_year, next_season, "Game")),
                           {}, {},
                           {c \in resolution.submitted : c.order.kind \in {"Retreat", "Disband"}},
                           units, dislodged_units)
         /\ UNCHANGED <<previous_season, pc>>

GameAdvancePhase ==
    /\ pc = "orders"
    /\ Len(resolution.phases) < MaxPhases
    /\ GameAdvanceWith(
           GameResolve(season, units, dislodged_units, supply_centers, orders, next_id),
           GameNextSeason(season, year,
               season \in {"Spring", "Fall"} /\
                   Len(GameResolve(season, units, dislodged_units, supply_centers, orders,
                                   next_id).dislodged_units) > 0),
           IF season = "Winter" THEN year + 1 ELSE year)

\* GameState.advance_phase: the attribute _retreat_from_spring is set nowhere.
GameStateNextSeason(s, has_dislodged, retreat_from_spring) ==
    CASE s = "Spring" -> IF has_dislodged THEN "Retreat" ELSE "Fall"
      [] s = "Retreat" -> IF retreat_from_spring THEN "Fall" ELSE "Winter"
      [] s = "Fall" -> IF has_dislodged THEN "Retreat" ELSE "Winter"
      [] s = "Winter" -> "Spring"

GameStateAdvancePhase ==
    /\ pc = "orders"
    /\ Len(resolution.phases) < MaxPhases
    /\ season' = GameStateNextSeason(season, Len(dislodged_units) > 0, FALSE)
    /\ year' = IF season = "Winter" THEN year + 1 ELSE year
    /\ dislodged_units' = IF season' # "Retreat" THEN << >> ELSE dislodged_units
    /\ resolution' =
           [resolution EXCEPT
               !.phases = Append(@, Phase(year', season', "GameState")),
               !.retreats = {},
               !.before = [units |-> units, dislodged_units |-> dislodged_units]]
    /\ UNCHANGED <<units, supply_centers, previous_season, orders, next_id, pc>>

ApiNext == SubmitOrder \/ SubmitBuildOrder \/ GameAdvancePhase \/ GameStateAdvancePhase

ApiSpec == ApiInit /\ [][ApiNext]_vars

(***************************************************************************)
(* gamemaster/gamemaster.py: Gamemaster.run_game, the loop of a game.      *)
(***************************************************************************)
\* The winter tables the players' answers are parsed into: parse_build_disband_orders
\* makes every BuildOrder without a coast.
ParsedWinterOrderTables(us, y) ==
    {w \in WinterOrderTables(us, y) :
        \A p \in Powers : \A k \in 1..Len(w[1][p]) : w[1][p][k].coast = None}

\* A game that one power has all but won.
WonSupplyCenters == OwnershipTable("Russia", VictoryCenters, "Turkey", 0)

RunInit ==
    \E board \in GameBoards :
        /\ units = board.units
        /\ orders \in OrderTables(board)
        /\ supply_centers \in GameSupplyCenters \cup {WonSupplyCenters}
        /\ year = 1901
        /\ season \in {"Spring", "Fall"}
        /\ previous_season = None
        /\ dislodged_units = << >>
        /\ next_id = Len(board.units) + 1
        /\ resolution = NoResolution
        /\ pc = "orders"

\* run_winter_phase on the orders of the players.
RunWinterPhase ==
    /\ pc = "orders"
    /\ season = "Winter"
    /\ \E w \in ParsedWinterOrderTables(units, year) :
           KeepResult(ResolveWinterPhase(units, supply_centers, w[1], w[2], next_id))
    /\ pc' = "resolved"
    /\ UNCHANGED <<year, season, previous_season, orders>>

RunNext == ResolveMovement \/ ResolveRetreat \/ RunWinterPhase \/ AdvancePhase

\* The loop goes on: the resolver called in a phase returns, and the handler of the
\* phase then advances the phase.
RunSpec == RunInit /\ [][RunNext]_vars /\ WF_pc(Returns) /\ WF_vars(AdvancePhase)


(***************************************************************************)
(* Properties of movement resolution.  They read the last ResolutionResult *)
(* (resolution), the order table it was given (orders) and the board that  *)
(* the caller keeps (units, dislodged_units).                              *)
(***************************************************************************)
\* True once unit id is in the dislodged list.
IsDislodged(id) ==
    \E k \in 1..Len(dislodged_units) : dislodged_units[k].unit.id = id

\* The attempts of unit id that succeeded.
SuccessfulMovesOf(id) ==
    {i \in 1..Len(resolution.moves) :
        resolution.moves[i].unit.id = id /\ i \in resolution.successful}

\* The hold strength of the unit in province p: 1 plus the valid, uncut supports
\* to hold it.
HoldStrength(p) ==
    DefenseStrength(resolution.game_state.units, orders, resolution.cut_supports, p)

\* The supports counted for attempt i: valid, uncut supports of the move from its
\* origin to its destination.
CountedSupports(i) ==
    {j \in 1..Len(orders) :
        /\ orders[j].kind = "Support"
        /\ ~IsSupportHold(orders[j])
        /\ orders[j].unit.id \notin resolution.cut_supports
        /\ IsSupportValid(resolution.game_state.units, orders, orders[j])
        /\ orders[j].destination = resolution.moves[i].destination
        /\ orders[j].supported_unit_location = resolution.moves[i].origin}

\* The fleets convoying the army of move order o: fleets in sea provinces whose
\* Convoy order names the army's location and the destination of o.
ConvoyingFleets(o) ==
    {n \in 1..Len(resolution.game_state.units) :
        LET f == resolution.game_state.units[n]
            fo == GetOrder(orders, f.id)
        IN  /\ f.unit_type = "Fleet"
            /\ IsSea(f.location)
            /\ fo.kind = "Convoy"
            /\ fo.convoyed_army_location = o.unit.location
            /\ fo.destination = o.destination}

\* The provinces reached from seen through adjacent provinces of zones.
RECURSIVE ConvoyChain(_, _)
ConvoyChain(seen, zones) ==
    LET more == {z \in zones \ seen : \E s \in seen : z \in GetAdjacentProvinces(s, None)}
    IN  IF more = {} THEN seen ELSE ConvoyChain(seen \cup more, zones)

\* A convoy route for move order o: a connected path of sea provinces from its
\* origin to its destination, each holding a fleet that convoys this army there.
ConvoyRouteExists(o) ==
    LET zones == {resolution.game_state.units[n].location : n \in ConvoyingFleets(o)}
    IN  \E z \in ConvoyChain({o.unit.location}, zones) \ {o.unit.location} :
            o.destination \in GetAdjacentProvinces(z, None)

\* Every move that was accepted is an adjacent move or an army's move to a land
\* province with a convoy route.
OrdersWellFormed ==
    \A i \in 1..Len(resolution.moves) :
        resolution.moves[i].via_convoy =>
            /\ resolution.moves[i].unit.unit_type = "Army"
            /\ ~IsSea(resolution.moves[i].destination)
            /\ ConvoyRouteExists(GetOrder(orders, resolution.moves[i].unit.id))

\* C1: starting from a board with at most one unit per province, the board that
\* movement resolution returns has at most one unit per province, for every order
\* set (several moves into one province, some of them via convoy, included).
\* Stated for order sets whose convoyed moves all have a convoy route.
C1_OneUnitPerProvince ==
    (pc = "resolved" /\ OrdersWellFormed) =>
        \A i, j \in 1..Len(units) : units[i].location = units[j].location => i = j

\* Where unit u is expected after the resolution: the destination of its successful
\* move, or else its origin.
C2_Target(u) ==
    IF SuccessfulMovesOf(u.id) = {} THEN u.location
    ELSE resolution.moves[Min(SuccessfulMovesOf(u.id))].destination

\* The units of the new board that stand for u: u itself when it did not move, a
\* new unit of u's power and kind at the destination when it did.
C2_OnBoard(u) ==
    {k \in 1..Len(units) :
        IF SuccessfulMovesOf(u.id) = {} THEN units[k] = u
        ELSE /\ \A n \in 1..Len(resolution.game_state.units) :
                    resolution.game_state.units[n].id # units[k].id
             /\ units[k].power = u.power
             /\ units[k].unit_type = u.unit_type
             /\ units[k].location = C2_Target(u)}

\* C2: after a movement resolution every unit that was on the board is either on
\* the board once (at its origin or at the destination of its successful move) or
\* in the dislodged list once, never both, and no other unit appears.
C2_UnitsConserved ==
    (pc = "resolved" /\ OrdersWellFormed) =>
        /\ Len(units) + Len(dislodged_units) = Len(resolution.game_state.units)
        /\ \A n \in 1..Len(resolution.game_state.units) :
              LET u == resolution.game_state.units[n]
                  dis == {k \in 1..Len(dislodged_units) : dislodged_units[k].unit.id = u.id}
              IN  Cardinality(dis) + (IF C2_OnBoard(u) = {} THEN 0 ELSE 1) = 1

\* C3: in a head-to-head of two non-convoyed legal moves, with no other move into
\* either province, the move of strictly greater attack strength succeeds and the
\* opposing unit is dislodged; with equal strengths both bounce and neither unit is
\* dislodged.
C3_HeadToHead ==
    (pc = "resolved" /\ OrdersWellFormed) =>
        \A i, j \in 1..Len(resolution.moves) :
            LET a == resolution.moves[i]
                b == resolution.moves[j]
            IN  (/\ i # j
                 /\ ~a.via_convoy /\ ~b.via_convoy
                 /\ a.origin = b.destination /\ b.origin = a.destination
                 /\ MovesTo(resolution.moves, a.destination) = {i}
                 /\ MovesTo(resolution.moves, b.destination) = {j})
                =>
                /\ resolution.strength[i] > resolution.strength[j] =>
                      /\ i \in resolution.successful
                      /\ j \notin resolution.successful
                      /\ IsDislodged(b.unit.id)
                /\ resolution.strength[i] = resolution.strength[j] =>
                      /\ i \in resolution.bounced /\ j \in resolution.bounced
                      /\ ~IsDislodged(a.unit.id) /\ ~IsDislodged(b.unit.id)

\* C4: a unit U at province P is in the dislodged list only if U's own move did not
\* succeed and some move into P succeeded whose attack strength is strictly greater
\* than U's hold strength and than the strength of every other move into P.
C4_DislodgedOnlyIfBeaten ==
    (pc = "resolved" /\ OrdersWellFormed) =>
        \A k \in 1..Len(dislodged_units) :
            LET d == dislodged_units[k]
                into == MovesTo(resolution.moves, d.dislodged_from)
            IN  /\ SuccessfulMovesOf(d.unit.id) = {}
                /\ \E i \in into :
                      /\ i \in resolution.successful
                      /\ resolution.strength[i] > HoldStrength(d.dislodged_from)
                      /\ \A j \in into \ {i} :
                            resolution.strength[i] > resolution.strength[j]

\* C5: if two or more legal moves into province P tie for the maximum attack
\* strength, every move into P bounces, no unit enters P, the unit in P is not
\* dislodged and P is in the contested set.
C5_TieBouncesAll ==
    (pc = "resolved" /\ OrdersWellFormed) =>
        \A n \in 1..Len(resolution.moves) :
            LET P == resolution.moves[n].destination
                into == MovesTo(resolution.moves, P)
                top == {i \in into :
                           \A j \in into : resolution.strength[i] >= resolution.strength[j]}
            IN  Cardinality(top) >= 2 =>
                    /\ into \subseteq resolution.bounced
                    /\ into \cap resolution.successful = {}
                    /\ \A k \in 1..Len(dislodged_units) :
                          dislodged_units[k].dislodged_from # P
                    /\ P \in resolution.contested_provinces

\* The province D of the claim: the destination of a support to move, the supported
\* location of a support to hold.
C6_D(o) == IF IsSupportHold(o) THEN o.supported_unit_location ELSE o.destination

C7_NoDislodgementByOwnSupport ==
    (pc = "resolved" /\ OrdersWellFormed) =>
        \A k \in 1..Len(dislodged_units) :
            LET d == dislodged_units[k]
            IN  \A i \in MovesTo(resolution.moves, d.dislodged_from) :
                    LET own == {j \in CountedSupports(i) :
                                   orders[j].unit.power = d.unit.power}
                    IN  ~(/\ i \in resolution.successful
                          /\ resolution.moves[i].origin = d.dislodger_origin
                          /\ resolution.strength[i] > HoldStrength(d.dislodged_from)
                          /\ resolution.strength[i] - Cardinality(own)
                                 <= HoldStrength(d.dislodged_from))

\* The illegal moves of the claim: destination equal to the origin, unknown
\* destination, army into a sea province without via_convoy, fleet into a pure-land
\* province, or not adjacent when not via convoy.
C8_IllegalMove(o) ==
    /\ o.kind = "Move"
    /\ \/ o.destination = o.unit.location
       \/ ProvinceMissing(o.destination)
       \/ (o.unit.unit_type = "Army" /\ IsSea(o.destination) /\ ~o.via_convoy)
       \/ (o.unit.unit_type = "Fleet" /\ IsLand(o.destination) /\ ~IsCoastal(o.destination))
       \/ (~o.via_convoy /\ ~IsAdjacent(o.unit.location, o.destination,
                                         o.unit.coast, o.dest_coast))

\* The resolution of the same board under the order table with order j replaced by
\* a Hold order of the same unit.
C8_WithHold(j) ==
    ResolveMovementPhase(resolution.game_state.units,
                         [orders EXCEPT ![j] = HoldOrder(orders[j].unit)],
                         resolution.game_state.supply_centers,
                         resolution.game_state.fall,
                         resolution.game_state.next_id)

C9_ConvoyLegalIffRoute ==
    pc = "resolved" =>
        \A j \in 1..Len(orders) :
            LET o == orders[j]
                attempts == {i \in 1..Len(resolution.moves) :
                                resolution.moves[i].unit.id = o.unit.id}
            IN  (/\ o.kind = "Move" /\ o.via_convoy
                 /\ o.unit.unit_type = "Army"
                 /\ ~ProvinceMissing(o.destination)
                 /\ ~IsSea(o.destination)
                 /\ o.destination # o.unit.location)
                =>
                IF ConvoyRouteExists(o) THEN attempts # {}
                ELSE /\ attempts = {}
                     /\ \E n \in 1..Len(resolution.illegal_orders) :
                           /\ resolution.illegal_orders[n].location = o.unit.location
                           /\ resolution.illegal_orders[n].destination = o.destination
                     /\ resolution.move_results[o.unit.id] = <<"Held position", None>>

\* C10: if every fleet convoying an army is dislodged in the phase, the army's
\* via_convoy move does not succeed, the army is not relocated, and it dislodges no
\* unit at its destination.
C10_DisruptedConvoyFails ==
    pc = "resolved" =>
        \A i \in 1..Len(resolution.moves) :
            LET a == resolution.moves[i]
                fleets == ConvoyingFleets(GetOrder(orders, a.unit.id))
            IN  (/\ a.via_convoy
                 /\ fleets # {}
                 /\ \A n \in fleets : IsDislodged(resolution.game_state.units[n].id))
                =>
                /\ i \notin resolution.successful
                /\ (\E k \in 1..Len(units) : units[k] = a.unit) \/ IsDislodged(a.unit.id)
                /\ \A k \in 1..Len(dislodged_units) :
                      ~(/\ dislodged_units[k].dislodged_from = a.destination
                        /\ dislodged_units[k].dislodger_origin = a.origin)

(***************************************************************************)
(* The retreat phase.                                                      *)
(***************************************************************************)
\* A retreat phase has just been resolved.
RetreatResolved == pc = "resolved" /\ resolution.kind = "retreat"

\* The units a resolution put on the board: those the board it was given did not hold.
PlacedUnits(r) ==
    {r.units[i] : i \in 1..Len(r.units)} \
        {r.game_state.units[i] : i \in 1..Len(r.game_state.units)}

\* The dislodged unit of record d is on the board after the resolution, at p.
PlacedAt(r, d, p) ==
    \E u \in PlacedUnits(r) :
        u.power = d.unit.power /\ u.unit_type = d.unit.unit_type /\ u.location = p

\* The dislodged unit of record d is on the board after the resolution.
Placed(r, d) == \E p \in Provinces : PlacedAt(r, d, p)

\* The order the retreat resolution had for the unit of record d.
RetreatOrderOf(r, d) == GetRetreatOrder(r.orders, d.unit.id)

\* C11: for every dislodged unit, a Retreat order whose destination is the province
\* its dislodger came from is rejected: the unit is destroyed, it is not on the board
\* after the retreat resolution.
C11_RetreatToDislodgerOriginRejected ==
    RetreatResolved =>
        \A k \in 1..Len(resolution.game_state.dislodged_units) :
            LET d == resolution.game_state.dislodged_units[k]
            IN  (/\ RetreatOrderOf(resolution, d).kind = "Retreat"
                 /\ RetreatOrderOf(resolution, d).destination = d.dislodger_origin)
                => (~Placed(resolution, d) /\ resolution.dislodged_units = << >>)

\* A movement phase has just been resolved without an error.
MovementResolved == pc = "resolved" /\ resolution.kind = "movement" /\ ~resolution.raised

\* The provinces where a move of the resolved movement phase bounced.
BouncedDestinations(r) == {r.moves[i].destination : i \in r.bounced}

\* The retreat order of record d names p, and p passes every test of a retreat
\* destination other than the contested set.
RetreatsToContested(r, d, p) ==
    /\ RetreatOrderOf(r, d).kind = "Retreat"
    /\ RetreatOrderOf(r, d).destination = p
    /\ p \in d.contested_provinces
    /\ p \in GetAdjacentProvinces(d.dislodged_from, d.unit.coast)
    /\ p # d.dislodger_origin
    /\ ~(d.unit.unit_type = "Army" /\ IsSea(p))
    /\ ~(d.unit.unit_type = "Fleet" /\ IsLand(p))
    /\ GetUnitAt(r.game_state.units, p, None) = NoUnit

\* C12: the contested set a dislodged unit carries is the set of provinces where a
\* move of its movement phase bounced, and a Retreat order whose destination is in
\* that set is rejected: the unit is destroyed, it is not on the board afterwards.
C12_RetreatToContestedRejected ==
    /\ MovementResolved =>
           \A k \in 1..Len(dislodged_units) :
               dislodged_units[k].contested_provinces = BouncedDestinations(resolution)
    /\ RetreatResolved =>
           \A k \in 1..Len(resolution.game_state.dislodged_units) :
               LET d == resolution.game_state.dislodged_units[k]
               IN  (/\ RetreatOrderOf(resolution, d).kind = "Retreat"
                    /\ RetreatOrderOf(resolution, d).destination \in d.contested_provinces)
                   => (~Placed(resolution, d) /\ resolution.dislodged_units = << >>)

\* A unit was ordered to retreat to a contested province that is otherwise valid.
C12_Witness ==
    /\ RetreatResolved
    /\ \E k \in 1..Len(resolution.game_state.dislodged_units) :
           \E p \in Provinces :
               RetreatsToContested(resolution, resolution.game_state.dislodged_units[k], p)

\* Record d has a Retreat order to R, and R is adjacent to the province the unit was
\* dislodged from, compatible with its kind, vacant on the board the movement phase
\* left, not the origin of its dislodger and not contested.
ValidRetreat(r, d, R) ==
    /\ RetreatOrderOf(r, d).kind = "Retreat"
    /\ RetreatOrderOf(r, d).destination = R
    /\ R \in GetAdjacentProvinces(d.dislodged_from, d.unit.coast)
    /\ ~(d.unit.unit_type = "Army" /\ IsSea(R))
    /\ ~(d.unit.unit_type = "Fleet" /\ IsLand(R))
    /\ GetUnitAt(r.game_state.units, R, None) = NoUnit
    /\ R # d.dislodger_origin
    /\ R \notin d.contested_provinces

\* Another dislodged unit than the one of record d has a valid retreat to R.
OtherRetreatsTo(r, d, R) ==
    \E j \in 1..Len(r.game_state.dislodged_units) :
        /\ r.game_state.dislodged_units[j].unit.id # d.unit.id
        /\ ValidRetreat(r, r.game_state.dislodged_units[j], R)

\* C13: after a retreat resolution the dislodged set is empty, every unit that was on
\* the board is unchanged, a dislodged unit is on the board at R exactly when it had
\* a valid Retreat order to R that no other dislodged unit shares, and a province two
\* or more units retreat to stays vacant.
C13_RetreatOutcome ==
    RetreatResolved =>
        /\ resolution.dislodged_units = << >>
        /\ Len(resolution.units) >= Len(resolution.game_state.units)
        /\ \A i \in 1..Len(resolution.game_state.units) :
               resolution.units[i] = resolution.game_state.units[i]
        /\ \A k \in 1..Len(resolution.game_state.dislodged_units) :
               \A R \in Provinces :
                   LET d == resolution.game_state.dislodged_units[k]
                   IN  /\ PlacedAt(resolution, d, R)
                           <=> (ValidRetreat(resolution, d, R)
                                /\ ~OtherRetreatsTo(resolution, d, R))
                       /\ (ValidRetreat(resolution, d, R) /\ OtherRetreatsTo(resolution, d, R))
                           => GetUnitAt(resolution.units, R, None) = NoUnit

(***************************************************************************)
(* The winter phase.                                                       *)
(***************************************************************************)
\* A winter phase has just been resolved without an error.
WinterResolved == pc = "resolved" /\ resolution.kind = "winter" /\ ~resolution.raised

\* C14: after a winter resolution every power has as many units as supply centers,
\* whatever the build and disband orders were.
C14_UnitsEqualCenters ==
    WinterResolved =>
        \A p \in Powers :
            GetUnitCount(resolution.units, p) = GetScCount(resolution.supply_centers, p)

\* The claim of C14 for the powers that had more units than supply centers.
C14_DisbandingPowersEqualCenters ==
    WinterResolved =>
        \A p \in Powers :
            GetUnitCount(resolution.game_state.units, p)
                > GetScCount(resolution.supply_centers, p)
            => GetUnitCount(resolution.units, p) <= GetScCount(resolution.supply_centers, p)

\* The conditions of a build, on the board e.units it was applied to.
BuildAllowed(e, sc) ==
    /\ HomeCenterOf(e.order.location) = e.order.power
    /\ e.order.location \in DOMAIN sc
    /\ sc[e.order.location] = e.order.power
    /\ \A k \in 1..Len(e.units) : e.units[k].location # e.order.location
    /\ ~(e.order.unit_type = "Fleet" /\ IsLand(e.order.location))
    /\ ~(e.order.unit_type = "Army" /\ IsSea(e.order.location))
    /\ (e.order.unit_type = "Fleet" /\ ProvinceCoasts(e.order.location) # {})
           => e.order.coast # None
    /\ GetUnitCount(e.units, e.order.power) < GetScCount(sc, e.order.power)

\* C15: a winter resolution applies a Build only if its location is a home supply
\* center of the building power, owned by that power, without any unit, fit for the
\* kind of the unit, with a coast named for a fleet on a province with coasts, and
\* the power has fewer units than supply centers at that moment.
C15_BuildsAppliedOnlyIfValid ==
    WinterResolved =>
        \A k \in 1..Len(resolution.built) :
            BuildAllowed(resolution.built[k], resolution.supply_centers)

\* The units of power p on a board, as a set.
UnitsOf(us, p) == {us[k] : k \in {i \in 1..Len(us) : us[i].power = p}}

\* C16: a winter resolution removes from a power with more units than supply
\* centers exactly the excess, all of them units of that power, whatever its disband
\* list contains, and the disbands leave the units of the other powers on the board.
C16_DisbandsExactlyExcess ==
    WinterResolved =>
        \A p \in Powers :
            IF GetUnitCount(resolution.game_state.units, p)
                   > GetScCount(resolution.supply_centers, p)
            THEN /\ GetUnitCount(resolution.units, p)
                        = GetScCount(resolution.supply_centers, p)
                 /\ UnitsOf(resolution.units, p) \subseteq UnitsOf(resolution.game_state.units, p)
            ELSE UnitsOf(resolution.game_state.units, p) \subseteq UnitsOf(resolution.units, p)

(***************************************************************************)
(* Supply-center ownership.                                                *)
(***************************************************************************)
\* The owner of a supply center, None for a neutral one.
OwnerOf(sc, p) == IF p \in DOMAIN sc THEN sc[p] ELSE None

\* The game has just entered Winter: Fall movement and any Fall retreats are resolved.
EnteredWinter == season = "Winter" /\ pc = "orders"

\* Every unoccupied supply center has the owner it had on the board r was given.
UnoccupiedKeepOwner(r) ==
    \A p \in SupplyCenterProvinces :
        GetUnitAt(units, p, None) = NoUnit
            => OwnerOf(supply_centers, p) = OwnerOf(r.game_state.supply_centers, p)

\* The part of C17 about unoccupied centers: a center without a unit after the Fall
\* movement keeps its owner, and so does a center without a unit when Winter begins
\* (a retreat can only add units).
C17_UnoccupiedCentersKeepOwner ==
    /\ (MovementResolved /\ season = "Fall") => UnoccupiedKeepOwner(resolution)
    /\ EnteredWinter => UnoccupiedKeepOwner(resolution)

\* C17: when the game enters Winter, every supply center occupied by a unit is owned
\* by that unit's power, also a center entered by a Fall retreat, and every
\* unoccupied supply center has the owner it had before Fall.
C17_FallOwnership ==
    /\ EnteredWinter =>
           \A k \in 1..Len(units) :
               units[k].location \in SupplyCenterProvinces
                   => OwnerOf(supply_centers, units[k].location) = units[k].power
    /\ C17_UnoccupiedCentersKeepOwner

\* The part of C17 about occupied centers, on boards with one unit per province that
\* no Fall retreat has changed.
C17_OwnershipWithoutRetreat ==
    (/\ EnteredWinter
     /\ resolution.kind = "movement"
     /\ \A j, k \in 1..Len(units) : units[j].location = units[k].location => j = k)
    => \A k \in 1..Len(units) :
           units[k].location \in SupplyCenterProvinces
               => OwnerOf(supply_centers, units[k].location) = units[k].power

\* C18: supply-center ownership is changed by no Spring movement resolution, by no
\* retreat resolution, by no winter resolution and by no change of phase: it can
\* differ only across the resolution of a Fall movement phase.
C18_OwnershipChangesOnlyInFall ==
    [][supply_centers' # supply_centers => (season = "Fall" /\ pc = "orders")]_vars

\* A unit stands on a supply center of another owner after a Spring movement, after a
\* retreat that follows Spring, or after a winter resolution.
C18_Witness ==
    /\ pc = "resolved"
    /\ ~resolution.raised
    /\ \/ resolution.kind = "movement" /\ season = "Spring"
       \/ resolution.kind = "retreat" /\ previous_season = "Spring"
             /\ \E u \in PlacedUnits(resolution) :
                    /\ u.location \in SupplyCenterProvinces
                    /\ OwnerOf(supply_centers, u.location) # u.power
       \/ resolution.kind = "winter"
    /\ \E k \in 1..Len(units) :
           /\ units[k].location \in SupplyCenterProvinces
           /\ OwnerOf(supply_centers, units[k].location) # units[k].power

(***************************************************************************)
(* C19: check_victory.                                                     *)
(***************************************************************************)
VictoryChecked == pc = "checked" /\ resolution.kind = "victory"

\* The powers that own 18 supply centers or more.
PowersWithEighteen(sc) == {p \in Powers : GetScCount(sc, p) >= 18}

\* C19: check_victory returns a power exactly when that power owns 18 supply centers
\* or more, and no winner otherwise; the ownership table names only the 34 supply
\* centers, and in every state at most one power owns 18 of them or more.
C19_VictoryAtEighteen ==
    /\ VictoryChecked =>
          /\ resolution.winner \in Powers \cup {None}
          /\ \A p \in Powers :
                resolution.winner = p <=> GetScCount(supply_centers, p) >= 18
          /\ resolution.winner = None <=> PowersWithEighteen(supply_centers) = {}
    /\ Cardinality(SupplyCenterProvinces) = 34
    /\ DOMAIN supply_centers \subseteq SupplyCenterProvinces
    /\ Cardinality(PowersWithEighteen(supply_centers)) <= 1

\* A power that had 17 centers takes its 18th in a Fall movement phase and is
\* returned by check_victory.
C19_Witness ==
    /\ VictoryChecked
    /\ resolution.winner # None
    /\ GetScCount(supply_centers, resolution.winner) = 18
    /\ resolution.previous.kind = "movement"
    /\ GetScCount(resolution.previous.game_state.supply_centers, resolution.winner) = 17

(***************************************************************************)
(* C20: the phase table.                                                   *)
(***************************************************************************)
PhaseAdvanced == resolution.kind = "advance"

\* The row of the phase table for a season, the previous season of a retreat and
\* the dislodged flag; None where the table has no row.
PhaseTable(s, prev, dislodged) ==
    CASE s = "Spring" /\ dislodged -> "Retreat"
      [] s = "Spring" /\ ~dislodged -> "Fall"
      [] s = "Fall" /\ dislodged -> "Retreat"
      [] s = "Fall" /\ ~dislodged -> "Winter"
      [] s = "Retreat" /\ prev = "Spring" -> "Fall"
      [] s = "Retreat" /\ prev = "Fall" -> "Winter"
      [] s = "Winter" -> "Spring"
      [] OTHER -> None

\* C20: whatever flags advance_phase was called with so far, its last call followed
\* the phase table: Spring to Retreat with dislodged units and to Fall without, Fall
\* to Retreat with dislodged units and to Winter without, Retreat to Fall when the
\* previous season is Spring and to Winter when it is Fall, Winter to Spring of the
\* next year; the year is the same after every other call.
C20_AdvanceFollowsPhaseTable ==
    PhaseAdvanced =>
        /\ PhaseTable(resolution.state.season, resolution.state.previous_season,
                      resolution.has_dislodged_units) # None
              => season = PhaseTable(resolution.state.season,
                                     resolution.state.previous_season,
                                     resolution.has_dislodged_units)
        /\ year = IF resolution.state.season = "Winter"
                  THEN resolution.state.year + 1
                  ELSE resolution.state.year

\* A retreat that followed a Spring with dislodged units has been left for the Fall
\* of the same year, in a year after a Winter was left.
C20_Witness ==
    /\ PhaseAdvanced
    /\ resolution.state.season = "Retreat"
    /\ resolution.state.previous_season = "Spring"
    /\ season = "Fall"
    /\ year > 1901

(***************************************************************************)
(* C21: previous_season in the game loop.                                  *)
(***************************************************************************)
\* C21: in the game loop a Retreat state carries the season of the movement phase
\* it came from as previous_season, from the step that enters the retreat, through
\* the resolution of the retreat orders, until the phase is advanced; every Spring,
\* Fall and Winter state has no previous_season.
C21_PreviousSeasonInRetreat ==
    /\ [](season = "Retreat" => previous_season \in {"Spring", "Fall"})
    /\ [](season # "Retreat" => previous_season = None)
    /\ [][season # "Retreat" /\ season' = "Retreat" => previous_season' = season]_vars
    /\ [][season = "Retreat" /\ season' = "Retreat" => previous_season' = previous_season]_vars

\* The retreat orders of a retreat that followed a Fall have been resolved and the
\* phase is not advanced yet.
C21_Witness ==
    /\ season = "Retreat"
    /\ pc = "resolved"
    /\ resolution.kind = "retreat"
    /\ previous_season = "Fall"

(***************************************************************************)
(* C22: save and load.                                                     *)
(***************************************************************************)
Loaded == pc = "loaded" /\ resolution.kind = "load"

\* A unit without its id.
UnitFields(u) == <<u.power, u.unit_type, u.location, u.coast>>

\* A dislodged record with its unit without id.
DislodgedFields(d) ==
    <<UnitFields(d.unit), d.dislodged_from, d.dislodger_origin, d.contested_provinces>>

\* C22: from_dict(to_dict(state)) has the year, the season, the previous_season, the
\* units (power, kind, location, coast), the ownership and the dislodged records of
\* state; the previous_season of a Retreat state is the one that was saved.
C22_SaveLoadRoundTrip ==
    Loaded =>
        /\ ~resolution.raised
        /\ year = resolution.state.year
        /\ season = resolution.state.season
        /\ previous_season = resolution.state.previous_season
        /\ Len(units) = Len(resolution.state.units)
        /\ \A i \in 1..Len(units) : UnitFields(units[i]) = UnitFields(resolution.state.units[i])
        /\ supply_centers = resolution.state.supply_centers
        /\ Len(dislodged_units) = Len(resolution.state.dislodged_units)
        /\ \A i \in 1..Len(dislodged_units) :
              DislodgedFields(dislodged_units[i]) =
              DislodgedFields(resolution.state.dislodged_units[i])

\* A Retreat state after a Fall, with a dislodged unit and a contested province, has
\* been saved and loaded, and its units carry new ids.
C22_Witness ==
    /\ Loaded
    /\ season = "Retreat"
    /\ previous_season = "Fall"
    /\ \E i \in 1..Len(dislodged_units) : dislodged_units[i].contested_provinces # {}
    /\ \E i \in 1..Len(units) : units[i].id # resolution.state.units[i].id

(***************************************************************************)
(* C23: malformed input.                                                   *)
(***************************************************************************)
\* The order table that was resolved names a unit that is not on the board.
OrderForMissingUnit(r) ==
    \E k \in 1..Len(orders) : UnitById(r.game_state.units, orders[k].unit.id) = NoUnit

\* The board that was resolved has two units in one province.
TwoUnitsInOneProvince(r) ==
    \E i, j \in 1..Len(r.game_state.units) :
        i # j /\ r.game_state.units[i].location = r.game_state.units[j].location

\* The ownership that was resolved has an entry for a province that is no supply center.
OwnershipOutsideSupplyCenters(r) ==
    ~(DOMAIN r.game_state.supply_centers \subseteq SupplyCenterProvinces)

Malformed(r) ==
    OrderForMissingUnit(r) \/ TwoUnitsInOneProvince(r) \/ OwnershipOutsideSupplyCenters(r)

\* C23: when the order set names a unit that is not on the board, or the board has two
\* units in one province, or a province that is no supply center has an owner,
\* resolve_movement returns an error, resolves no move, and the board (units,
\* ownership, dislodged units) is as it was.
C23_MalformedInputRefused ==
    pc = "resolved" /\ resolution.kind = "movement" /\ Malformed(resolution) =>
        /\ resolution.raised
        /\ resolution.successful = {}
        /\ resolution.dislodged_units = << >>
        /\ units = resolution.game_state.units
        /\ supply_centers = resolution.game_state.supply_centers
        /\ dislodged_units = << >>

(***************************************************************************)
(* C24: termination of the movement resolution.                            *)
(***************************************************************************)
MovementReturned == pc = "resolved" /\ resolution.kind = "movement"

\* The attempts i, j, k of r form a cycle of three moves.
CycleOfThree(r, i, j, k) ==
    /\ r.moves[i].destination = r.moves[j].origin
    /\ r.moves[j].destination = r.moves[k].origin
    /\ r.moves[k].destination = r.moves[i].origin
    /\ i # j /\ j # k /\ i # k

\* C24: resolve_movement returns for every board and order set, and on return every
\* move attempt (every move that is not illegal) is marked succeeded or bounced and
\* not both; in particular the moves of a cycle of three, which wait for each other,
\* are marked.
C24_ResolveMovementTerminates ==
    /\ <>MovementReturned
    /\ [](MovementReturned =>
            \A i \in 1..Len(resolution.moves) :
                (i \in resolution.successful) # (i \in resolution.bounced))

\* A cycle of three moves was resolved: all three are marked bounced.
C24_Witness ==
    /\ MovementReturned
    /\ \E i, j, k \in resolution.bounced : CycleOfThree(resolution, i, j, k)

(***************************************************************************)
(* C25: coasts of the units.                                               *)
(***************************************************************************)
\* A phase has been resolved and its new state is the board.
PhaseResolved ==
    /\ pc = "resolved"
    /\ resolution.kind \in {"movement", "retreat", "winter"}
    /\ ~resolution.raised

\* The unit carries the coast its kind and its province ask for.
CoastIsRight(u) ==
    /\ u.unit_type = "Army" => u.coast = None
    /\ u.unit_type = "Fleet" /\ ProvinceCoasts(u.location) # {} =>
          u.coast \in ProvinceCoasts(u.location)

\* C25: on every board produced by a movement, retreat or winter resolution no army
\* carries a coast, and every fleet on a province with several coasts (StP, Spa, Bul)
\* carries one of the coasts of that province, also when it came by a move or a
\* retreat that named no coast.
C25_CoastsAreRight ==
    PhaseResolved => \A i \in 1..Len(units) : CoastIsRight(units[i])

(***************************************************************************)
(* C26.  Game.advance_phase and GameState.advance_phase, called in a       *)
(* Retreat phase, move to Fall when the retreat followed a Spring movement *)
(* phase and to Winter when it followed a Fall movement phase, in every    *)
(* game year; so every year played through the Game API has exactly one    *)
(* Spring and one Fall movement phase before its Winter.                   *)
(***************************************************************************)
\* The phases of year y among the first k phases of the game that are season s.
PhasesOf(phases, k, y, s) == {n \in 1..k : phases[n].year = y /\ phases[n].season = s}

\* C26: after a retreat the season is Fall if the retreat followed Spring and Winter
\* if it followed Fall, whichever of the two methods advances the phase; and a year
\* the Game played to its Winter had one Fall movement phase, and one Spring at most
\* (none when the game was created in Fall).
C26_RetreatReturnsToSeasonOrder ==
    LET phases == resolution.phases
    IN  /\ \A k \in 2..(Len(phases) - 1) :
               phases[k].season = "Retreat" =>
                   phases[k + 1].season =
                       IF phases[k - 1].season = "Spring" THEN "Fall" ELSE "Winter"
        /\ \A k \in 1..Len(phases) :
               (phases[k].season = "Winter" /\ \A n \in 1..k : phases[n].by = "Game") =>
                   /\ Cardinality(PhasesOf(phases, k, phases[k].year, "Fall")) = 1
                   /\ Cardinality(PhasesOf(phases, k, phases[k].year, "Spring")) <= 1

(***************************************************************************)
(* C27.  During a Retreat phase Game.submit_order accepts (returns True    *)
(* and records) a Retreat or Disband order for each dislodged unit, so a   *)
(* dislodged unit that is given a Retreat order to a valid destination is  *)
(* on the board after the following Game.advance_phase; submit_order       *)
(* rejects orders for units that do not exist and any order in Winter, and *)
(* submit_build_order is accepted only in Winter.                          *)
(***************************************************************************)
\* The dislodged unit of the list ds with the id, or NoUnit.
DislodgedById(ds, id) ==
    IF \E k \in 1..Len(ds) : ds[k].unit.id = id
    THEN ds[CHOOSE k \in 1..Len(ds) : ds[k].unit.id = id]
    ELSE [unit |-> NoUnit]

\* A call of submit_order in this phase with a retreat or a disband for a unit that
\* is dislodged.
RetreatSubmitted(c) ==
    /\ c.season = "Retreat"
    /\ season = "Retreat"
    /\ c.order.kind \in {"Retreat", "Disband"}
    /\ DislodgedById(dislodged_units, c.key).unit # NoUnit

\* The retreat order c of the phase the Game has just resolved was the only order for
\* its unit and named a valid destination.
ValidRetreatGiven(c) ==
    LET before == resolution.before
        d == DislodgedById(before.dislodged_units, c.key)
    IN  /\ c.order.kind = "Retreat"
        /\ d.unit # NoUnit
        /\ \A other \in resolution.retreats : other.key = c.key => other = c
        /\ c.order.destination \in GetValidRetreatDestinations(d, before.units)

\* The Game has just resolved a Retreat phase.
RetreatAdvanced ==
    LET phases == resolution.phases
    IN  /\ Len(phases) > 1
        /\ phases[Len(phases) - 1].season = "Retreat"
        /\ phases[Len(phases)].by = "Game"

\* C27: the retreat and disband orders for dislodged units are accepted and pending;
\* a unit given one valid retreat stands in its destination after advance_phase; no
\* order is accepted for an id no unit of the board has, nor any in Winter; a build
\* order is accepted in Winter and only then.
C27_SubmissionsAccepted ==
    /\ \A c \in resolution.submitted :
           /\ RetreatSubmitted(c) => c.returned /\ HasPending(orders, UnitKey(c.key))
           /\ (c.season = season /\ UnitById(units, c.key) = NoUnit
                   /\ DislodgedById(dislodged_units, c.key).unit = NoUnit) => ~c.returned
           /\ c.season = "Winter" => ~c.returned
    /\ \A c \in resolution.builds : c.returned <=> c.season = "Winter"
    /\ RetreatAdvanced =>
           \A c \in resolution.retreats :
               ValidRetreatGiven(c) =>
                   \E k \in 1..Len(units) :
                       /\ units[k].location = c.order.destination
                       /\ units[k].power = c.order.unit.power
                       /\ units[k].unit_type = c.order.unit.unit_type

(***************************************************************************)
(* C28.  In every board produced by movement, retreat or winter resolution *)
(* from a board where this already holds, no army is located in a sea      *)
(* province and no fleet is located in a pure-land (inland) province, for  *)
(* every order set (including army moves flagged via_convoy whose          *)
(* destination is a sea province, and fleet builds).                       *)
(***************************************************************************)
\* The unit stands in a province its kind may be in.
TerrainIsRight(u) ==
    /\ u.unit_type = "Army" => ~IsSea(u.location)
    /\ u.unit_type = "Fleet" => ~(IsLand(u.location) /\ ~IsCoastal(u.location))

TerrainIsRightOn(us) == \A i \in 1..Len(us) : TerrainIsRight(us[i])

\* C28: a resolution given a board with no army at sea and no fleet inland returns
\* such a board.
C28_TerrainIsRight ==
    (PhaseResolved /\ TerrainIsRightOn(resolution.game_state.units)) =>
        TerrainIsRightOn(units)

(***************************************************************************)
(* C29.  When three or more units are ordered to move in a cycle (A->B,    *)
(* B->C, C->A, all non-convoyed and legal), none of them moves: every move *)
(* of the cycle is marked bounced whatever its support, no unit of the     *)
(* cycle is relocated, and A, B and C are in the contested set; likewise a *)
(* move into a province whose occupant belongs to such an unresolved cycle *)
(* or head-to-head bounces.                                                *)
(***************************************************************************)
\* The attempts of the set ring are made on foot.
OnFoot(r, ring) == \A n \in ring : ~r.moves[n].via_convoy

\* The attempts i and j of r are a head-to-head.
HeadToHead(r, i, j) ==
    /\ r.moves[i].destination = r.moves[j].origin
    /\ r.moves[j].destination = r.moves[i].origin
    /\ i # j

\* The moves of the ring are bounced, their units stand where they stood or are
\* dislodged there, and their provinces are contested.
RingBounced(r, ring) ==
    \A n \in ring :
        /\ n \in r.bounced
        /\ \/ UnitById(units, r.moves[n].unit.id).location = r.moves[n].origin
           \/ \E k \in 1..Len(dislodged_units) :
                  /\ dislodged_units[k].unit.id = r.moves[n].unit.id
                  /\ dislodged_units[k].dislodged_from = r.moves[n].origin
        /\ r.moves[n].destination \in r.contested_provinces

\* Every move into a province of the ring is bounced.
MovesIntoBounced(r, ring) ==
    \A n \in 1..Len(r.moves) :
        (\E m \in ring : r.moves[n].destination = r.moves[m].origin) => n \in r.bounced

\* C29: the moves of a cycle of three moves on foot are all bounced, with any
\* support, their units are not relocated and their provinces are contested; every
\* move into a province of such a cycle or of a head-to-head is bounced.
C29_CycleBounces ==
    MovementReturned =>
        /\ \A i, j, k \in 1..Len(resolution.moves) :
               (CycleOfThree(resolution, i, j, k) /\ OnFoot(resolution, {i, j, k})) =>
                   /\ RingBounced(resolution, {i, j, k})
                   /\ MovesIntoBounced(resolution, {i, j, k})
        /\ \A i, j \in 1..Len(resolution.moves) :
               (HeadToHead(resolution, i, j) /\ OnFoot(resolution, {i, j})) =>
                   MovesIntoBounced(resolution, {i, j})

(***************************************************************************)
(* C30.  In Gamemaster.run_game the year never decreases and increases by  *)
(* exactly 1 only on the Winter to Spring transition, every loop iteration *)
(* advances the phase, and from any phase the next Spring is reached       *)
(* within at most 5 iterations (Spring, Retreat, Fall, Retreat, Winter);   *)
(* hence the game always ends, either with a winner or when the year       *)
(* reaches 1901 + max_years.                                               *)
(***************************************************************************)
\* The place of a phase in its year: Spring, its retreat, Fall, its retreat, Winter.
PhaseRank(s, prev) ==
    CASE s = "Spring" -> 1
      [] s = "Retreat" /\ prev = "Spring" -> 2
      [] s = "Fall" -> 3
      [] s = "Retreat" /\ prev # "Spring" -> 4
      [] s = "Winter" -> 5

\* An iteration of the loop ends: the handler of the phase returns.
IterationEnds == pc = "resolved" /\ pc' # "resolved"

GameOver == pc = "over"

\* C30: the year changes only by one and only from Winter to Spring; an iteration
\* leaves the game in another phase, later in the same year or the Spring of the
\* next, so that five iterations at most lead to the next Spring; and the game ends,
\* with a winner or in the year 1901 + max_years.
C30_RunGameEnds ==
    /\ [][year' = year \/ (year' = year + 1 /\ season = "Winter" /\ season' = "Spring")]_vars
    /\ [][IterationEnds =>
              /\ <<year, season>>' # <<year, season>>
              /\ \/ year' = year /\ PhaseRank(season', previous_season') >
                                      PhaseRank(season, previous_season)
                 \/ year' = year + 1 /\ season' = "Spring"]_vars
    /\ <>GameOver
    /\ [](GameOver => CheckVictory(supply_centers) # None \/ year >= 1901 + MaxYears)

\* A game ended by a winner before the last year, and a game ended by the year.
C30_Witness ==
    /\ GameOver
    /\ year >= 1901 + MaxYears
    /\ CheckVictory(supply_centers) = None
=============================================================================
